---- MODULE Spec2Model ----
(***************************************************************************)
(* Model of the pinout renderer (src/src/renderer/svg.rs): the phase-gated *)
(* command loop process_commands, the theme store, the page / dpi state    *)
(* and the layout cursor.  f32 quantities are modelled by integers.        *)
(***************************************************************************)
EXTENDS Integers, Sequences, FiniteSets, TLC

VARIABLES phase, outcome, cmd, n, themes, pin_func_types, dpi, page_type,
          page_dimensions, page_resolution, anchor_x, anchor_y, offset_x,
          offset_y, line_settings, message_settings, current_text, document,
          validations, declared

vars == <<phase, outcome, cmd, n, themes, pin_func_types, dpi, page_type,
          page_dimensions, page_resolution, anchor_x, anchor_y, offset_x,
          offset_y, line_settings, message_settings, current_text, document,
          validations, declared>>

(* ------------------------------ bounds --------------------------------- *)
\* longest command sequence of one pass
MaxCmds == 4
\* largest magnitude a numeral string of the model denotes
MaxNum == 100
\* longest command sequence of a pass that styles and draws one pin row
MaxStyleCmds == 5
\* longest command sequence of a pass that lays out pin rows
MaxPinCmds == 7
\* longest command sequence of a pass that writes text messages
MaxMsgCmds == 6
\* longest command sequence of a pass that colours text segments
MaxTextCmds == 5
\* longest command sequence of a pass that places images
MaxImageCmds == 3
\* longest command sequence offered to the document and to the renderer
MaxDocCmds == 3
\* longest command sequence of a pass that draws pin markers and leaders
MaxLeadCmds == 4
\* longest command sequence of a pass that draws free boxes
MaxBoxCmds == 3
\* longest command sequence of a pass that draws rows on the four sides
MaxSideCmds == 5
\* most command lines of a parsed file
MaxLines == 3
\* largest percentage written in a size field
MaxPercent == 110

(* --------------------------- program constants ------------------------- *)
MinDpi == 50
MaxDpi == 1200
DefaultDpi == 300

(* ------------------------------ maps ----------------------------------- *)
EmptyMap == [k \in {} |-> 0]

Put(m, k, v) == [x \in (DOMAIN m) \cup {k} |-> IF x = k THEN v ELSE m[x]]

(* --------------------------- ThemeValue -------------------------------- *)
\* enum ThemeValue: one record shape for every variant
VString(s) == [tag |-> "String", s |-> s, n |-> 0]
VFloat(x) == [tag |-> "Float", s |-> "", n |-> x]
VInt(i) == [tag |-> "Int", s |-> "", n |-> i]
VFontSlant(e) == [tag |-> "FontSlant", s |-> e, n |-> 0]
VFontBoldness(e) == [tag |-> "FontBoldness", s |-> e, n |-> 0]
VFontStretch(e) == [tag |-> "FontStretch", s |-> e, n |-> 0]

\* Option<T>: the empty sequence is None, <<x>> is Some(x)
None == << >>
Some(x) == <<x>>

\* impl Display for FontSlant / FontBoldness / FontStretch
Display(e) ==
  CASE e = "Normal" -> "normal"
    [] e = "Italic" -> "italic"
    [] e = "Oblique" -> "oblique"
    [] e = "Bold" -> "bold"
    [] e = "Bolder" -> "bolder"
    [] e = "Lighter" -> "lighter"
    [] e = "Wider" -> "wider"
    [] e = "Narrower" -> "narrower"
    [] e = "Condensed" -> "condensed"
    [] e = "Expanded" -> "expanded"
    [] OTHER -> e

\* str::parse::<f32>().ok() on the strings of the model: a numeral parses
ParseNum(s) ==
  IF \E k \in (0 - MaxNum)..MaxNum : ToString(k) = s
  THEN Some(CHOOSE k \in (0 - MaxNum)..MaxNum : ToString(k) = s)
  ELSE None

as_string(v) ==
  CASE v.tag = "String" -> v.s
    [] v.tag = "Float" -> ToString(v.n)
    [] v.tag = "Int" -> ToString(v.n)
    [] OTHER -> Display(v.s)

as_float(v) ==
  CASE v.tag = "Float" -> Some(v.n)
    [] v.tag = "Int" -> Some(v.n)
    [] v.tag = "String" -> ParseNum(v.s)
    [] OTHER -> None

\* trait FromThemeValue for String and f32
from_theme_value(ty, v) ==
  IF ty = "String" THEN Some(as_string(v)) ELSE as_float(v)

(* ---------------------------- theme store ------------------------------ *)
set_theme_value(th, theme, entry, value) ==
  IF theme \in DOMAIN th
  THEN [th EXCEPT ![theme] = Put(@, entry, value)]
  ELSE Put(th, theme, Put(EmptyMap, entry, value))

\* get_theme without the DEFAULT level
get_theme_own(th, ty, theme_name, entry, default) ==
  LET own == IF theme_name \in DOMAIN th /\ entry \in DOMAIN th[theme_name]
             THEN from_theme_value(ty, th[theme_name][entry]) ELSE None
  IN  IF own # None THEN own[1] ELSE default

\* get_theme::<T>: ty is the requested type T ("String" or "f32")
get_theme(th, ty, theme_name, entry, default) ==
  LET own == IF theme_name \in DOMAIN th /\ entry \in DOMAIN th[theme_name]
             THEN from_theme_value(ty, th[theme_name][entry]) ELSE None
      dflt == IF theme_name # "DEFAULT" /\ "DEFAULT" \in DOMAIN th
                 /\ entry \in DOMAIN th["DEFAULT"]
              THEN from_theme_value(ty, th["DEFAULT"][entry]) ELSE None
  IN  IF own # None THEN own[1] ELSE IF dflt # None THEN dflt[1] ELSE default


\* HashMap::entry(name).or_insert_with(HashMap::new)
or_insert(th, name) == IF name \in DOMAIN th THEN th ELSE Put(th, name, EmptyMap)

RECURSIVE insert_all(_, _, _)
\* a run of theme_map.insert(key, value) calls on themes[name]
insert_all(th, name, kvs) ==
  IF kvs = << >> THEN th
  ELSE insert_all([th EXCEPT ![name] = Put(@, kvs[1][1], kvs[1][2])],
                  name, Tail(kvs))

(* --------------------------- phase controller -------------------------- *)
SetupKinds == {"Labels", "BorderColor", "BorderWidth", "BorderOpacity",
               "FillColor", "Opacity", "Font", "FontSize", "FontColor",
               "FontSlant", "FontBold", "FontStretch", "FontOutline",
               "FontOutlineThickness", "Type", "Wire", "Group", "BoxTheme",
               "TextFont", "Page", "Dpi"}

DrawKinds == {"GoogleFont", "Image", "Icon", "Anchor", "PinSet", "Pin",
              "PinText", "Box", "Message", "Text", "EndMessage"}

\* Image taken for a setup command
get_command_phase_image(kind) ==
  CASE kind = "Draw" -> "Setup"
    [] kind = "Image" -> "Setup"
    [] kind \in SetupKinds -> "Setup"
    [] kind \in DrawKinds -> "Draw"

\* the BOX theme definition of the setup phase taken for the BOX draw command
get_command_phase_box(kind) ==
  CASE kind = "Draw" -> "Setup"
    [] kind = "BoxTheme" -> "Draw"
    [] kind \in SetupKinds -> "Setup"
    [] kind \in DrawKinds -> "Draw"

get_command_phase(kind) ==
  CASE kind = "Draw" -> "Setup"
    [] kind \in SetupKinds -> "Setup"
    [] kind \in DrawKinds -> "Draw"

\* history of the pass: validations counts the calls of check_boxes,
\* declared the Labels commands that returned Ok
history == <<validations, declared>>

\* the fields of SvgRenderer other than the page, the themes and the labels
cursor == <<anchor_x, anchor_y, offset_x, offset_y, line_settings>>
message == <<message_settings, current_text>>
page == <<dpi, page_type, page_dimensions, page_resolution>>

\* one iteration of the loop of process_commands takes the next command
Take(c) ==
  /\ outcome = "running"
  /\ cmd' = c
  /\ n' = n + 1

\* return Err(e): the pass is over, nothing else is touched
Return(e) == outcome' = e

\* the second arm of the match of process_commands: the phase gate
Gate(kind) == get_command_phase(kind) = phase

InvalidPhase ==
  /\ Return("InvalidPhase")
  /\ UNCHANGED <<phase, history, themes, pin_func_types, page, cursor,
                 message, document>>

(* ------------------------------ page, dpi ------------------------------ *)
\* ((mm * dpi as f32) / 25.4) as u32
resolution(mm, d) == (mm * d * 10) \div 254

PageSizes == [name \in {"A4-P", "A4-L", "A3-P", "A3-L"} |->
                CASE name = "A4-P" -> <<210, 297>>
                  [] name = "A4-L" -> <<297, 210>>
                  [] name = "A3-P" -> <<297, 420>>
                  [] name = "A3-L" -> <<420, 297>>]

\* set_dpi with the limits themselves rejected
set_dpi_exclusive(d) ==
  IF d <= MinDpi \/ d >= MaxDpi
  THEN /\ Return("SvgError: DPI must be between 50 and 1200")
       /\ UNCHANGED page
  ELSE /\ dpi' = d
       /\ page_resolution' = <<resolution(page_dimensions[1], d),
                               resolution(page_dimensions[2], d)>>
       /\ UNCHANGED <<outcome, page_type, page_dimensions>>

\* set_dpi that stores the value before it checks the range
set_dpi_early(d) ==
  IF d < MinDpi \/ d > MaxDpi
  THEN /\ Return("SvgError: DPI must be between 50 and 1200")
       /\ dpi' = d
       /\ UNCHANGED <<page_type, page_dimensions, page_resolution>>
  ELSE /\ dpi' = d
       /\ page_resolution' = <<resolution(page_dimensions[1], d),
                               resolution(page_dimensions[2], d)>>
       /\ UNCHANGED <<outcome, page_type, page_dimensions>>

set_dpi(d) ==
  IF d < MinDpi \/ d > MaxDpi
  THEN /\ Return("SvgError: DPI must be between 50 and 1200")
       /\ UNCHANGED page
  ELSE /\ dpi' = d
       /\ page_resolution' = <<resolution(page_dimensions[1], d),
                               resolution(page_dimensions[2], d)>>
       /\ UNCHANGED <<outcome, page_type, page_dimensions>>

\* set_page_size that recomputes the resolution with the dpi of construction
set_page_size_stale(page_name) ==
  IF page_name \notin DOMAIN PageSizes
  THEN /\ Return("SvgError: Unknown page type")
       /\ UNCHANGED page
  ELSE /\ page_type' = page_name
       /\ page_dimensions' = PageSizes[page_name]
       /\ page_resolution' = <<resolution(PageSizes[page_name][1], DefaultDpi),
                               resolution(PageSizes[page_name][2], DefaultDpi)>>
       /\ UNCHANGED <<outcome, dpi>>

\* page_name.trim() of the names of the model is the name itself
set_page_size(page_name) ==
  IF page_name \notin DOMAIN PageSizes
  THEN /\ Return("SvgError: Unknown page type")
       /\ UNCHANGED page
  ELSE /\ page_type' = page_name
       /\ page_dimensions' = PageSizes[page_name]
       /\ page_resolution' = <<resolution(PageSizes[page_name][1], dpi),
                               resolution(PageSizes[page_name][2], dpi)>>
       /\ UNCHANGED <<outcome, dpi>>

Dpi(d) ==
  /\ Take([kind |-> "Dpi", dpi |-> d])
  /\ UNCHANGED <<phase, history, themes, pin_func_types, cursor, message,
                 document>>
  /\ IF Gate("Dpi") THEN set_dpi(d) ELSE Return("InvalidPhase") /\ UNCHANGED page

Page(page_name) ==
  /\ Take([kind |-> "Page", page_name |-> page_name])
  /\ UNCHANGED <<phase, history, themes, pin_func_types, cursor, message,
                 document>>
  /\ IF Gate("Page") THEN set_page_size(page_name)
     ELSE Return("InvalidPhase") /\ UNCHANGED page

(* ------------------------------- labels -------------------------------- *)
fixed_theme_entries == <<"DEFAULT", "TYPE", "GROUP">>

Range(seq) == {seq[i] : i \in DOMAIN seq}

\* themes.insert(name, HashMap::new()) for every name of names
insert_empty(th, names) ==
  [t \in (DOMAIN th) \cup names |-> IF t \in names THEN EmptyMap ELSE th[t]]

\* set_labels that does not look at the group field
set_labels_nogroup(default, pin_type, group, labels) ==
  IF pin_func_types = << >>
  THEN IF /\ default = "DEFAULT"
          /\ (pin_type = None \/ pin_type[1] = "TYPE")
       THEN /\ pin_func_types' = labels
            /\ declared' = declared + 1
            /\ themes' = insert_empty(insert_empty(themes,
                                                    Range(fixed_theme_entries)),
                                      Range(labels))
            /\ UNCHANGED outcome
       ELSE /\ Return("SvgError: First labels must be DEFAULT, TYPE, GROUP")
            /\ UNCHANGED <<themes, pin_func_types, declared>>
  ELSE /\ Return("SvgError: Can only set the pin function labels ONCE")
       /\ UNCHANGED <<themes, pin_func_types, declared>>

set_labels(default, pin_type, group, labels) ==
  IF pin_func_types = << >>
  THEN IF /\ default = "DEFAULT"
          /\ (pin_type = None \/ pin_type[1] = "TYPE")
          /\ (group = None \/ group[1] = "GROUP")
       THEN /\ pin_func_types' = labels
            /\ declared' = declared + 1
            /\ themes' = insert_empty(insert_empty(themes,
                                                    Range(fixed_theme_entries)),
                                      Range(labels))
            /\ UNCHANGED outcome
       ELSE /\ Return("SvgError: First labels must be DEFAULT, TYPE, GROUP")
            /\ UNCHANGED <<themes, pin_func_types, declared>>
  ELSE /\ Return("SvgError: Can only set the pin function labels ONCE")
       /\ UNCHANGED <<themes, pin_func_types, declared>>

Labels(default, pin_type, group, labels) ==
  /\ Take([kind |-> "Labels", head |-> <<default, pin_type, group>>,
           labels |-> labels])
  /\ UNCHANGED <<phase, validations, page, cursor, message, document>>
  /\ IF Gate("Labels") THEN set_labels(default, pin_type, group, labels)
     ELSE Return("InvalidPhase") /\ UNCHANGED <<themes, pin_func_types, declared>>

(* ---------------------------- theme commands --------------------------- *)
RECURSIVE set_pin_funcs(_, _, _, _, _)
\* the loop of set_theme over values.iter().enumerate()
set_pin_funcs(th, funcs, entry, values, i) ==
  IF i > Len(values) THEN th
  ELSE set_pin_funcs(IF i <= Len(funcs)
                     THEN set_theme_value(th, funcs[i], entry, values[i])
                     ELSE th,
                     funcs, entry, values, i + 1)

set_theme(th, funcs, entry, default, pin_type, group, values) ==
  LET t1 == set_theme_value(th, "DEFAULT", entry, default)
      t2 == IF pin_type # None
            THEN set_theme_value(t1, "TYPE", entry, pin_type[1]) ELSE t1
      t3 == IF group # None
            THEN set_theme_value(t2, "GROUP", entry, group[1]) ELSE t2
  IN  set_pin_funcs(t3, funcs, entry, values, 1)

\* the theme entry each command kind of execute_command writes
EntryOf == [kind \in {"FillColor", "Opacity", "BorderColor", "Font",
                      "FontSize", "FontColor", "FontSlant", "FontBold",
                      "FontStretch", "FontOutline", "FontOutlineThickness"} |->
              CASE kind = "FillColor" -> "Fill Color"
                [] kind = "Opacity" -> "Opacity"
                [] kind = "BorderColor" -> "Border Color"
                [] kind = "Font" -> "Font"
                [] kind = "FontSize" -> "Font Size"
                [] kind = "FontColor" -> "Font Color"
                [] kind = "FontSlant" -> "Font Slant"
                [] kind = "FontBold" -> "Font Bold"
                [] kind = "FontStretch" -> "Font Stretch"
                [] kind = "FontOutline" -> "Font Outline"
                [] kind = "FontOutlineThickness" -> "Font Outline Thickness"]

\* a setup command that execute_command hands to set_theme
ThemeCmd(kind, default, pin_type, group, values) ==
  /\ Take([kind |-> kind, default |-> default, pin_type |-> pin_type,
           group |-> group, values |-> values])
  /\ UNCHANGED <<phase, history, pin_func_types, page, cursor, message,
                 document>>
  /\ IF Gate(kind)
     THEN /\ themes' = set_theme(themes, pin_func_types, EntryOf[kind],
                                 default, pin_type, group, values)
          /\ UNCHANGED outcome
     ELSE Return("InvalidPhase") /\ UNCHANGED themes

\* a setup command that writes themes only
StoreCmd(c, th) ==
  /\ Take(c)
  /\ UNCHANGED <<phase, history, pin_func_types, page, cursor, message,
                 document>>
  /\ IF Gate(c.kind)
     THEN themes' = th /\ UNCHANGED outcome
     ELSE Return("InvalidPhase") /\ UNCHANGED themes

set_border_width(width) ==
  set_theme_value(themes, "DEFAULT", "Border Width", VInt(width))

set_border_opacity(opacity) ==
  set_theme_value(themes, "DEFAULT", "Border Opacity", VFloat(opacity))

\* impl Display for PinType / WireType
DisplayPinType(t) ==
  CASE t = "IO" -> "IO" [] t = "Input" -> "INPUT" [] t = "Output" -> "OUTPUT"

DisplayWireType(w) ==
  CASE w = "Digital" -> "DIGITAL"
    [] w = "Pwm" -> "PWM"
    [] w = "Analog" -> "ANALOG"
    [] w = "HsAnalog" -> "HS-ANALOG"
    [] w = "Power" -> "POWER"

\* format!("PINTYPE_{}", ..) and the other prefixed theme names
Prefixed(prefix, name) ==
  CASE prefix = "PINTYPE" -> "PINTYPE_" \o name
    [] prefix = "PINWIRE" -> "PINWIRE_" \o name
    [] prefix = "GROUP" -> "GROUP_" \o name
    [] prefix = "BOX" -> "BOX_" \o name
    [] prefix = "FONT" -> "FONT_" \o name

set_pin_type(pin_type, color, opacity) ==
  LET e == Prefixed("PINTYPE", DisplayPinType(pin_type))
  IN  insert_all(or_insert(themes, e), e,
                 << <<"FILL COLOR", VString(color)>>,
                    <<"OPACITY", VFloat(opacity)>> >>)

set_wire_type(wire_type, color, opacity, thickness) ==
  LET e == Prefixed("PINWIRE", DisplayWireType(wire_type))
  IN  insert_all(or_insert(themes, e), e,
                 << <<"FILL COLOR", VString(color)>>,
                    <<"OPACITY", VFloat(opacity)>>,
                    <<"THICKNESS", VFloat(thickness)>> >>)

set_group(name, color, opacity) ==
  LET e == Prefixed("GROUP", name)
  IN  insert_all(or_insert(themes, e), e,
                 << <<"FILL COLOR", VString(color)>>,
                    <<"OPACITY", VFloat(opacity)>> >>)

\* b: the fields of Command::BoxTheme
define_box(b) ==
  LET e == Prefixed("BOX", b.name)
  IN  insert_all(or_insert(themes, e), e,
                 << <<"BORDER COLOR", VString(b.border_color)>>,
                    <<"BORDER OPACITY", VFloat(b.border_opacity)>>,
                    <<"FILL COLOR", VString(b.fill_color)>>,
                    <<"OPACITY", VFloat(b.fill_opacity)>>,
                    <<"BORDER WIDTH", VFloat(b.line_width)>>,
                    <<"WIDTH", VFloat(b.box_width)>>,
                    <<"HEIGHT", VFloat(b.box_height)>>,
                    <<"CORNER RX", VFloat(b.box_cr_x)>>,
                    <<"CORNER RY", VFloat(b.box_cr_y)>>,
                    <<"SKEW", VFloat(b.box_skew)>>,
                    <<"SKEW OFFSET", VFloat(b.box_skew_offset)>> >>)

\* f: the fields of Command::TextFont
define_text_font(f) ==
  LET e == Prefixed("FONT", f.theme_name)
  IN  insert_all(or_insert(themes, e), e,
                 << <<"FONT", VString(f.font)>>,
                    <<"FONT SIZE", VFloat(f.size)>>,
                    <<"OUTLINE COLOR", VString(f.outline_color)>>,
                    <<"FONT COLOR", VString(f.color)>>,
                    <<"FONT SLANT", VFontSlant(f.slant)>>,
                    <<"FONT BOLD", VFontBoldness(f.bold)>>,
                    <<"FONT STRETCH", VFontStretch(f.stretch)>> >>)

(* ------------------------- the Draw transition ------------------------- *)
\* check_boxes that looks the box up under its bare name
check_boxes_bare(th) ==
  \A t \in DOMAIN th :
    "BOXES" \in DOMAIN th[t] => as_string(th[t]["BOXES"]) \in DOMAIN th

check_boxes(th) ==
  \A t \in DOMAIN th :
    "BOXES" \in DOMAIN th[t] =>
      Prefixed("BOX", as_string(th[t]["BOXES"])) \in DOMAIN th

\* (Command::Draw, Phase::Setup) is the first arm of the match; a Draw in
\* the Draw phase falls to the second arm like any other command
Draw ==
  /\ Take([kind |-> "Draw"])
  /\ UNCHANGED <<themes, pin_func_types, page, cursor, message, document,
                 declared>>
  /\ IF phase = "Setup"
     THEN /\ validations' = validations + 1
          /\ IF check_boxes(themes)
             THEN phase' = "Draw" /\ UNCHANGED outcome
             ELSE Return("SvgError: Box used but not defined") /\ UNCHANGED phase
     ELSE /\ UNCHANGED <<phase, validations>>
          /\ IF Gate("Draw") THEN UNCHANGED outcome ELSE Return("InvalidPhase")

(* --------------------------- string helpers ---------------------------- *)
starts_with(s, prefix) ==
  Len(s) >= Len(prefix) /\ SubSeq(s, 1, Len(prefix)) = prefix

\* Value::from(f32) stores the number as its decimal string
ValueOf(x) == ToString(x)

\* .parse::<f32>().unwrap_or(dflt) on a stored Value
ParseOr(s, dflt) == IF ParseNum(s) = None THEN dflt ELSE ParseNum(s)[1]

\* f32 halving; the lengths of the model are chosen even where it matters
Half(x) == x \div 2

(* ---------------------------- layout cursor ---------------------------- *)
\* move_anchor that keeps the vertical running offset
move_anchor_keep(x, y) ==
  /\ anchor_x' = x
  /\ anchor_y' = y
  /\ offset_x' = 0
  /\ offset_y' = offset_y
  /\ UNCHANGED line_settings

\* move_anchor that drops the row configuration
move_anchor_clear(x, y) ==
  /\ anchor_x' = x
  /\ anchor_y' = y
  /\ offset_x' = 0
  /\ offset_y' = 0
  /\ line_settings' = EmptyMap

move_anchor(x, y) ==
  /\ anchor_x' = x
  /\ anchor_y' = y
  /\ offset_x' = 0
  /\ offset_y' = 0
  /\ UNCHANGED line_settings

SideStr(side) ==
  CASE side = "Left" -> "LEFT" [] side = "Right" -> "RIGHT"
    [] side = "Top" -> "TOP" [] side = "Bottom" -> "BOTTOM"

JustifyStr(j) ==
  CASE j = "Left" -> "LEFT" [] j = "Right" -> "RIGHT" [] j = "Center" -> "CENTER"
    [] j = "Top" -> "TOP" [] j = "Bottom" -> "BOTTOM"

\* r: the fields of Command::PinSet
start_pin_set(r) ==
  [k \in {"SIDE", "PACK", "JUSTIFY X", "JUSTIFY Y", "PINWIDTH", "GROUPWIDTH",
          "LINESTEP", "LEADER", "GAP", "HSTEP"} |->
     CASE k = "SIDE" -> SideStr(r.side)
       [] k = "PACK" -> IF r.packed THEN "PACKED" ELSE "UNPACKED"
       [] k = "JUSTIFY X" -> JustifyStr(r.justify_x)
       [] k = "JUSTIFY Y" -> JustifyStr(r.justify_y)
       [] k = "PINWIDTH" -> ValueOf(r.pin_width)
       [] k = "GROUPWIDTH" -> ValueOf(r.group_width)
       [] k = "LINESTEP" -> ValueOf(r.line_step)
       [] k = "LEADER" -> ValueOf(r.leader_offset)
       [] k = "GAP" -> ValueOf(r.column_gap)
       [] k = "HSTEP" -> ValueOf(r.leader_h_step)]

\* a draw command whose handler cannot fail and touches the cursor only
CursorCmd(c) ==
  /\ Take(c)
  /\ UNCHANGED <<phase, history, themes, pin_func_types, page, message,
                 document>>

Anchor(x, y) ==
  /\ CursorCmd([kind |-> "Anchor", x |-> x, y |-> y])
  /\ IF Gate("Anchor") THEN move_anchor(x, y) /\ UNCHANGED outcome
     ELSE Return("InvalidPhase") /\ UNCHANGED cursor

PinSet(r) ==
  /\ CursorCmd([kind |-> "PinSet", row |-> r])
  /\ IF Gate("PinSet")
     THEN /\ line_settings' = start_pin_set(r)
          /\ UNCHANGED <<outcome, anchor_x, anchor_y, offset_x, offset_y>>
     ELSE Return("InvalidPhase") /\ UNCHANGED cursor

GoogleFont(link) ==
  /\ CursorCmd([kind |-> "GoogleFont", link |-> link])
  /\ UNCHANGED cursor
  /\ IF Gate("GoogleFont") THEN UNCHANGED outcome ELSE Return("InvalidPhase")

(* ------------------------------ text boxes ----------------------------- *)
RECURSIVE split_from(_, _, _)
\* text_content.split("\\n"): the separator is a backslash followed by n
split_from(s, start, i) ==
  IF i + 1 > Len(s) THEN <<SubSeq(s, start, Len(s))>>
  ELSE IF SubSeq(s, i, i + 1) = "\\n"
       THEN <<SubSeq(s, start, i - 1)>> \o split_from(s, i + 2, i + 2)
       ELSE split_from(s, start, i + 1)

split(s) == split_from(s, 1, 1)

get_box_theme(theme, entry, default) ==
  LET box_theme == IF ~starts_with(theme, "BOX_") THEN Prefixed("BOX", theme)
                   ELSE theme
  IN  IF box_theme \notin DOMAIN themes THEN default
      ELSE get_theme(themes, "String", box_theme, entry, default)

\* the group element text_box adds to the document
text_box(x, y, box_theme, pin_func, text_content, x_justify_str, y_justify_str) ==
  LET border_color == get_theme(themes, "String", pin_func, "BORDER COLOR", "red")
      border_width == get_theme(themes, "f32", pin_func, "BORDER WIDTH", 1)
      border_opacity == get_theme(themes, "f32", pin_func, "BORDER OPACITY", 1)
      fill_color == get_theme(themes, "String", pin_func, "FILL COLOR", "blue")
      opacity == get_theme(themes, "f32", pin_func, "OPACITY", 50)
      font == get_theme(themes, "String", pin_func, "FONT", "sans-serif")
      fontsize == get_theme(themes, "f32", pin_func, "FONT SIZE", 10)
      fontcolor == get_theme(themes, "String", pin_func, "FONT COLOR", "yellow")
      fontslant == get_theme(themes, "String", pin_func, "FONT SLANT", "normal")
      fontbold == get_theme(themes, "String", pin_func, "FONT BOLD", "normal")
      fontstretch == get_theme(themes, "String", pin_func, "FONT STRETCH", "normal")
      fontoutline == get_theme(themes, "String", pin_func, "FONT OUTLINE", fontcolor)
      fontoutthick == get_theme(themes, "f32", pin_func, "FONT OUTLINE THICKNESS", 0)
      w == get_theme(themes, "f32", box_theme, "WIDTH", 0)
      h == get_theme(themes, "f32", box_theme, "HEIGHT", 0)
      corner_rx == get_theme(themes, "f32", box_theme, "CORNER RX", 0)
      corner_ry == get_theme(themes, "f32", box_theme, "CORNER RY", 0)
      skew == get_theme(themes, "f32", box_theme, "SKEW", 0)
      xanchor == CASE x_justify_str = "LEFT" -> "start"
                   [] x_justify_str = "RIGHT" -> "end"
                   [] OTHER -> "middle"
      xalign == CASE x_justify_str = "LEFT" -> 0 - Half(w)
                  [] x_justify_str = "RIGHT" -> Half(w)
                  [] OTHER -> 0
      yalign == CASE y_justify_str = "TOP" -> (0 - Half(h)) + fontsize
                  [] y_justify_str = "BOTTOM" -> Half(h) - Half(fontsize)
                  [] OTHER -> fontsize \div 3
      lines == split(text_content)
      yalign1 == IF Len(lines) = 1 THEN yalign ELSE yalign - (h \div 5)
      yalign2 == IF Len(lines) = 1 THEN 0 - 1 ELSE yalign + (h \div 5)
      line(ly, content) ==
        [x |-> xalign, y |-> ly, font_size |-> fontsize, font_family |-> font,
         fill |-> fontcolor, font_style |-> fontslant,
         font_weight |-> fontbold, font_stretch |-> fontstretch,
         stroke |-> fontoutline,
         stroke_opacity |-> IF fontoutthick > 0 THEN 1 ELSE 0,
         stroke_width |-> fontoutthick, text_anchor |-> xanchor,
         content |-> content]
  IN  [kind |-> "g",
       \* fill_opacity is the percentage, the element carries opacity / 100
       rect |-> [x |-> Half(0 - w), y |-> Half(0 - h), width |-> w,
                 height |-> h, rx |-> corner_rx, ry |-> corner_ry,
                 stroke |-> border_color, fill_opacity |-> opacity,
                 fill |-> fill_color, stroke_width |-> border_width,
                 stroke_opacity |-> border_opacity, skew |-> skew],
       texts |-> IF text_content = "" THEN << >>
                 ELSE <<line(yalign1, lines[1])>> \o
                      (IF yalign2 >= 0 /\ Len(lines) > 1
                       THEN <<line(yalign2, lines[2])>> ELSE << >>),
       tx |-> x + Half(w), ty |-> y + Half(h)]

(* ------------------------------ pin rows ------------------------------- *)
\* line_settings.get(key).unwrap().parse::<f32>().unwrap_or(dflt)
LineNum(key, dflt) == ParseOr(line_settings[key], dflt)

get_pin_box_xy(box_offset_x, theme, line_height) ==
  LET x0 == anchor_x + offset_x + box_offset_x
      x == IF line_settings["SIDE"] = "LEFT"
           THEN x0 - ParseOr(get_box_theme(theme, "WIDTH", "0"), 0) ELSE x0
      y0 == anchor_y + offset_y
      box_height == ParseOr(get_box_theme(theme, "HEIGHT", "0"), 0)
      justify_y == line_settings["JUSTIFY Y"]
      y == CASE justify_y = "CENTER" -> y0 + Half(line_height - box_height)
             [] justify_y = "BOTTOM" -> y0 + (line_height - box_height)
             [] OTHER -> y0
  IN  <<x, y>>

inc_offset_x(box_offset_x, side, pin_func) ==
  LET gap == LineNum("GAP", 0)
      box_width == ParseOr(get_box_theme(pin_func, "WIDTH", "0"), 0)
      x_span == gap + box_width
  IN  CASE side = "LEFT" -> box_offset_x - x_span
        [] side = "RIGHT" -> box_offset_x + x_span
        [] OTHER -> box_offset_x

\* the sampled sine of the analog leader: sample i is at x = i / 10 + step,
\* y = sin(angle degrees) * (-group_width / 2); the angle is kept
sine_samples(max_angle, step, group_width) ==
  LET sine_width == step * 2
  IN  [i \in 1..(sine_width * 10) |->
         [x10 |-> (i - 1) + 10 * step,
          angle |-> (max_angle * (i - 1)) \div (sine_width * 10),
          amplitude |-> 0 - Half(group_width)]]

\* leader_points that draws the square wave for a digital wire too
leader_points_pwm(wire_type, leader_offset, group_width) ==
  LET step == leader_offset \div 4
      up == 0 - Half(group_width)
      down == Half(group_width)
  IN  CASE wire_type \in {"Pwm", "Digital"} ->
             [shape |-> "square",
              points |-> << <<0, 0>>, <<step, 0>>, <<step, up>>,
                            <<step * 2, up>>, <<step * 2, down>>,
                            <<step * 3, down>>, <<step * 3, 0>>,
                            <<step * 4, 0>> >>,
              samples |-> << >>]
        [] wire_type \in {"Analog", "HsAnalog"} ->
             [shape |-> "sine",
              points |-> << <<0, 0>>, <<step, 0>>, <<step * 4, 0>> >>,
              samples |-> sine_samples(IF wire_type = "Analog" THEN 360
                                       ELSE 720, step, group_width)]
        [] OTHER ->
             [shape |-> "line",
              points |-> << <<0, 0>>, <<leader_offset, 0>> >>,
              samples |-> << >>]

leader_points(wire_type, leader_offset, group_width) ==
  LET step == leader_offset \div 4
      up == 0 - Half(group_width)
      down == Half(group_width)
  IN  CASE wire_type = "Pwm" ->
             [shape |-> "square",
              points |-> << <<0, 0>>, <<step, 0>>, <<step, up>>,
                            <<step * 2, up>>, <<step * 2, down>>,
                            <<step * 3, down>>, <<step * 3, 0>>,
                            <<step * 4, 0>> >>,
              samples |-> << >>]
        [] wire_type \in {"Analog", "HsAnalog"} ->
             [shape |-> "sine",
              points |-> << <<0, 0>>, <<step, 0>>, <<step * 4, 0>> >>,
              samples |-> sine_samples(IF wire_type = "Analog" THEN 360
                                       ELSE 720, step, group_width)]
        [] OTHER ->
             [shape |-> "line",
              points |-> << <<0, 0>>, <<leader_offset, 0>> >>,
              samples |-> << >>]

\* (pin_width / 2) * sqrt(3), to three decimals of sqrt(3)
triangle_edge(pin_width) == (Half(pin_width) * 1732) \div 1000

\* print_pin: err, the primitives it adds, and the box offset it returns
print_pin(pin_type, wire, group) ==
  LET pin_width == LineNum("PINWIDTH", 10)
      group_width == LineNum("GROUPWIDTH", 20)
      leader_offset == LineNum("LEADER", 20)
      line_step == LineNum("LINESTEP", 10)
      side == line_settings["SIDE"]
      pin_box_offset == offset_x + Half(group_width)
      pin_center_x == IF side = "RIGHT" THEN anchor_x + pin_box_offset
                      ELSE anchor_x - pin_box_offset
      pin_center_y == anchor_y + offset_y + Half(line_step)
      group_theme == Prefixed("GROUP", group[1])
      group_circle ==
        IF group = None THEN << >>
        ELSE <<[kind |-> "circle", cx |-> pin_center_x, cy |-> pin_center_y,
                r |-> Half(group_width), stroke |-> "black",
                stroke_width |-> "2",
                fill |-> get_theme(themes, "String", group_theme,
                                   "FILL COLOR", "black"),
                fill_opacity |-> get_theme(themes, "f32", group_theme,
                                           "OPACITY", 1)]>>
      shift == pin_width \div 4
      edge == triangle_edge(pin_width)
      marker ==
        IF pin_type = None THEN << >>
        ELSE IF pin_type[1] = "IO"
        THEN <<[kind |-> "circle", cx |-> pin_center_x, cy |-> pin_center_y,
                r |-> Half(pin_width), stroke |-> "black", fill |-> "black",
                opacity |-> "1"]>>
        ELSE <<[kind |-> "polygon",
                points |->
                  IF \/ side = "LEFT" /\ pin_type[1] = "Output"
                     \/ side = "RIGHT" /\ pin_type[1] = "Input"
                  THEN << <<shift, Half(edge)>>, <<shift, 0 - Half(edge)>>,
                          <<0 - Half(pin_width), 0>> >>
                  ELSE << <<0 - shift, Half(edge)>>,
                          <<0 - shift, 0 - Half(edge)>>,
                          <<Half(pin_width), 0>> >>,
                tx |-> pin_center_x, ty |-> pin_center_y]>>
      return_pin_width == group_width + leader_offset
      wire_theme == Prefixed("PINWIRE", DisplayWireType(wire[1]))
      leader ==
        IF leader_offset > 0 /\ wire # None
        THEN <<[kind |-> "polyline",
                path |-> leader_points(wire[1], leader_offset, group_width),
                stroke |-> get_theme(themes, "String", wire_theme,
                                     "FILL COLOR", "black"),
                opacity |-> get_theme(themes, "f32", wire_theme, "OPACITY", 1),
                stroke_width |-> get_theme(themes, "f32", wire_theme,
                                           "THICKNESS", 1),
                tx |-> IF side = "LEFT"
                       THEN pin_center_x - Half(group_width) - leader_offset
                       ELSE pin_center_x + Half(group_width),
                ty |-> pin_center_y]>>
        ELSE << >>
  IN  IF group # None /\ group_theme \notin DOMAIN themes
      THEN [err |-> TRUE, prims |-> << >>, ret |-> 0]
      ELSE [err |-> FALSE, prims |-> group_circle \o marker \o leader,
            ret |-> IF side = "LEFT" THEN 0 - return_pin_width
                    ELSE return_pin_width]

RECURSIVE pin_boxes(_, _, _, _)
\* the loop of write_pin over attributes.iter().enumerate(), from index i
pin_boxes(attributes, i, box_offset_x, line_height) ==
  IF i > Len(attributes) THEN << >>
  ELSE IF i > Len(pin_func_types)
  THEN pin_boxes(attributes, i + 1, box_offset_x, line_height)
  ELSE LET pin_func == pin_func_types[i]
           xy == get_pin_box_xy(box_offset_x, pin_func, line_height)
           side == line_settings["SIDE"]
       IN  IF attributes[i] # ""
           THEN <<text_box(xy[1], xy[2], "BOX_PIN BOX", pin_func,
                           attributes[i], line_settings["JUSTIFY X"],
                           line_settings["JUSTIFY Y"])>> \o
                pin_boxes(attributes, i + 1,
                          inc_offset_x(box_offset_x, side, "PIN BOX"),
                          line_height)
           ELSE IF line_settings["PACK"] = "UNPACKED"
           THEN pin_boxes(attributes, i + 1,
                          inc_offset_x(box_offset_x, side, pin_func),
                          line_height)
           ELSE pin_boxes(attributes, i + 1, box_offset_x, line_height)

\* write_pin that moves to the next line although print_pin failed
write_pin_advance(wire, pin_type, group, attributes) ==
  IF line_settings = EmptyMap
  THEN /\ Return("SvgError: Line not setup with prior PINSET")
       /\ UNCHANGED <<document, offset_y>>
  ELSE LET pin == print_pin(pin_type, wire, group)
           line_height == LineNum("LINESTEP", 10)
       IN  IF pin.err
           THEN /\ Return("SvgError: PinGroup is not defined")
                /\ offset_y' = offset_y + line_height
                /\ UNCHANGED document
           ELSE /\ document' = document \o pin.prims \o
                                 pin_boxes(attributes, 1, pin.ret, line_height)
                /\ offset_y' = offset_y + line_height
                /\ UNCHANGED outcome

\* write_pin that adds the text boxes before the primitives of print_pin
write_pin_under(wire, pin_type, group, attributes) ==
  IF line_settings = EmptyMap
  THEN /\ Return("SvgError: Line not setup with prior PINSET")
       /\ UNCHANGED <<document, offset_y>>
  ELSE LET pin == print_pin(pin_type, wire, group)
           line_height == LineNum("LINESTEP", 10)
       IN  IF pin.err
           THEN /\ Return("SvgError: PinGroup is not defined")
                /\ UNCHANGED <<document, offset_y>>
           ELSE /\ document' = document \o
                                 pin_boxes(attributes, 1, pin.ret, line_height)
                                 \o pin.prims
                /\ offset_y' = offset_y + line_height
                /\ UNCHANGED outcome

write_pin(wire, pin_type, group, attributes) ==
  IF line_settings = EmptyMap
  THEN /\ Return("SvgError: Line not setup with prior PINSET")
       /\ UNCHANGED <<document, offset_y>>
  ELSE LET pin == print_pin(pin_type, wire, group)
           line_height == LineNum("LINESTEP", 10)
       IN  IF pin.err
           THEN /\ Return("SvgError: PinGroup is not defined")
                /\ UNCHANGED <<document, offset_y>>
           ELSE /\ document' = document \o pin.prims \o
                                 pin_boxes(attributes, 1, pin.ret, line_height)
                /\ offset_y' = offset_y + line_height
                /\ UNCHANGED outcome

\* a draw command that adds to the document and may move the running offset
DrawCmd(c) ==
  /\ Take(c)
  /\ UNCHANGED <<phase, history, themes, pin_func_types, page, message,
                 anchor_x, anchor_y, offset_x, line_settings>>

Pin(wire, pin_type, group, attributes) ==
  /\ DrawCmd([kind |-> "Pin", wire |-> wire, pin_type |-> pin_type,
              group |-> group, attributes |-> attributes])
  /\ IF Gate("Pin") THEN write_pin(wire, pin_type, group, attributes)
     ELSE Return("InvalidPhase") /\ UNCHANGED <<document, offset_y>>

\* self.pin_func_types[0] panics on an empty label list, after print_pin
\* has added its primitives
write_pin_text(wire, pin_type, group, theme, label, text) ==
  IF line_settings = EmptyMap
  THEN /\ Return("SvgError: Line not setup with prior PINSET")
       /\ UNCHANGED <<document, offset_y>>
  ELSE LET pin == print_pin(pin_type, wire, group)
           line_height == LineNum("LINESTEP", 10)
           side == line_settings["SIDE"]
           labelled == label # None /\ label[1] # ""
           pin_func == pin_func_types[1]
           lxy == get_pin_box_xy(pin.ret, pin_func, line_height)
           label_box ==
             IF labelled
             THEN <<text_box(lxy[1], lxy[2], "BOX_PIN BOX", pin_func, label[1],
                             line_settings["JUSTIFY X"],
                             line_settings["JUSTIFY Y"])>>
             ELSE << >>
           box_offset_x == IF labelled THEN inc_offset_x(pin.ret, side, pin_func)
                           ELSE pin.ret
           txy == get_pin_box_xy(box_offset_x, theme, line_height)
           gap == LineNum("GAP", 10)
           text_elem ==
             IF text = "" THEN << >>
             ELSE <<[kind |-> "text",
                     x |-> IF side = "LEFT" THEN txy[1] - gap ELSE txy[1] + gap,
                     y |-> txy[2] + Half(line_height),
                     font_size |-> get_theme(themes, "f32", theme,
                                             "FONT SIZE", 10),
                     font_family |-> get_theme(themes, "String", theme, "FONT",
                                               "sans-serif"),
                     fill |-> get_theme(themes, "String", theme, "FONT COLOR",
                                        "black"),
                     font_style |-> get_theme(themes, "String", theme,
                                              "FONT SLANT", "normal"),
                     font_weight |-> get_theme(themes, "String", theme,
                                               "FONT BOLD", "normal"),
                     font_stretch |-> get_theme(themes, "String", theme,
                                                "FONT STRETCH", "normal"),
                     text_anchor |-> IF side = "LEFT" THEN "end" ELSE "start",
                     content |-> text]>>
       IN  IF pin.err
           THEN /\ Return("SvgError: PinGroup is not defined")
                /\ UNCHANGED <<document, offset_y>>
           ELSE IF labelled /\ pin_func_types = << >>
           THEN /\ Return("panic")
                /\ document' = document \o pin.prims
                /\ UNCHANGED offset_y
           ELSE /\ document' = document \o pin.prims \o label_box \o text_elem
                /\ offset_y' = offset_y + line_height
                /\ UNCHANGED outcome

PinText(wire, pin_type, group, theme, label, text) ==
  /\ DrawCmd([kind |-> "PinText", wire |-> wire, pin_type |-> pin_type,
              group |-> group, theme |-> theme, label |-> label,
              text |-> text])
  /\ IF Gate("PinText")
     THEN write_pin_text(wire, pin_type, group, theme, label, text)
     ELSE Return("InvalidPhase") /\ UNCHANGED <<document, offset_y>>

OptJustifyStr(j) == IF j = None THEN "CENTER" ELSE JustifyStr(j[1])

\* b: the fields of Command::Box; the w and h draw_box computes are not used
draw_box(b) ==
  LET box_theme == IF starts_with(b.theme, "BOX_") THEN b.theme
                   ELSE Prefixed("BOX", b.theme)
  IN  text_box(b.x, b.y, box_theme, b.theme,
               IF b.text = None THEN "" ELSE b.text[1],
               OptJustifyStr(b.x_justify), OptJustifyStr(b.y_justify))

Box(b) ==
  /\ DrawCmd([kind |-> "Box", box |-> b])
  /\ UNCHANGED offset_y
  /\ IF Gate("Box")
     THEN document' = Append(document, draw_box(b)) /\ UNCHANGED outcome
     ELSE Return("InvalidPhase") /\ UNCHANGED document

(* --------------------------- message sessions -------------------------- *)
get_font_theme(font_name) ==
  IF font_name \in DOMAIN themes THEN font_name ELSE Prefixed("FONT", font_name)

\* message_settings.get(key).unwrap().parse::<f32>().unwrap_or(dflt)
MsgNum(ms, key, dflt) == ParseOr(ms[key], dflt)

\* the document after end_message
flushed == IF current_text = None THEN document
           ELSE Append(document, current_text[1])

\* start_text_message that falls back to the built-in value whenever the
\* command omits line step, font or font size
message_inserts_reset(ms, m) ==
  LET m1 == Put(ms, "Newline", "false")
      m2 == IF m.x # None
            THEN Put(Put(m1, "X", ValueOf(m.x[1])), "OffsetX", ValueOf(0))
            ELSE m1
      m3 == IF m.y # None
            THEN Put(Put(m2, "Y", ValueOf(m.y[1])), "OffsetY", ValueOf(0))
            ELSE m2
      m4 == IF m.line_step # None THEN Put(m3, "LineStep", ValueOf(m.line_step[1]))
            ELSE Put(m3, "LineStep", ValueOf(15))
      m5 == IF m.font # None THEN Put(m4, "Font", m.font[1])
            ELSE Put(m4, "Font", "sans-serif")
      m6 == IF m.font_size # None THEN Put(m5, "FontSize", ValueOf(m.font_size[1]))
            ELSE Put(m5, "FontSize", ValueOf(12))
      m7 == Put(Put(m6, "XJustify", OptJustifyStr(m.x_justify)),
                "YJustify", OptJustifyStr(m.y_justify))
      font_size == MsgNum(m7, "FontSize", 12)
      y_shift == IF m.y_justify = None THEN 0
                 ELSE CASE m.y_justify[1] = "Top" -> Half(font_size)
                        [] m.y_justify[1] = "Bottom" -> 0 - Half(font_size)
                        [] OTHER -> 0
  IN  Put(m7, "YShift", ValueOf(y_shift))

\* the inserts of start_text_message up to "YShift"; m: Command::Message
\* start_text_message that leaves a recorded Newline flag as it is
message_inserts_pending(ms, m) ==
  LET m1 == IF "Newline" \in DOMAIN ms THEN ms ELSE Put(ms, "Newline", "false")
      m2 == IF m.x # None
            THEN Put(Put(m1, "X", ValueOf(m.x[1])), "OffsetX", ValueOf(0))
            ELSE m1
      m3 == IF m.y # None
            THEN Put(Put(m2, "Y", ValueOf(m.y[1])), "OffsetY", ValueOf(0))
            ELSE m2
      m4 == IF m.line_step # None THEN Put(m3, "LineStep", ValueOf(m.line_step[1]))
            ELSE IF "LineStep" \notin DOMAIN m3 THEN Put(m3, "LineStep", ValueOf(15))
            ELSE m3
      m5 == IF m.font # None THEN Put(m4, "Font", m.font[1])
            ELSE IF "Font" \notin DOMAIN m4 THEN Put(m4, "Font", "sans-serif")
            ELSE m4
      m6 == IF m.font_size # None THEN Put(m5, "FontSize", ValueOf(m.font_size[1]))
            ELSE IF "FontSize" \notin DOMAIN m5 THEN Put(m5, "FontSize", ValueOf(12))
            ELSE m5
      m7 == Put(Put(m6, "XJustify", OptJustifyStr(m.x_justify)),
                "YJustify", OptJustifyStr(m.y_justify))
      font_size == MsgNum(m7, "FontSize", 12)
      y_shift == IF m.y_justify = None THEN 0
                 ELSE CASE m.y_justify[1] = "Top" -> Half(font_size)
                        [] m.y_justify[1] = "Bottom" -> 0 - Half(font_size)
                        [] OTHER -> 0
  IN  Put(m7, "YShift", ValueOf(y_shift))

message_inserts(ms, m) ==
  LET m1 == Put(ms, "Newline", "false")
      m2 == IF m.x # None
            THEN Put(Put(m1, "X", ValueOf(m.x[1])), "OffsetX", ValueOf(0))
            ELSE m1
      m3 == IF m.y # None
            THEN Put(Put(m2, "Y", ValueOf(m.y[1])), "OffsetY", ValueOf(0))
            ELSE m2
      m4 == IF m.line_step # None THEN Put(m3, "LineStep", ValueOf(m.line_step[1]))
            ELSE IF "LineStep" \notin DOMAIN m3 THEN Put(m3, "LineStep", ValueOf(15))
            ELSE m3
      m5 == IF m.font # None THEN Put(m4, "Font", m.font[1])
            ELSE IF "Font" \notin DOMAIN m4 THEN Put(m4, "Font", "sans-serif")
            ELSE m4
      m6 == IF m.font_size # None THEN Put(m5, "FontSize", ValueOf(m.font_size[1]))
            ELSE IF "FontSize" \notin DOMAIN m5 THEN Put(m5, "FontSize", ValueOf(12))
            ELSE m5
      m7 == Put(Put(m6, "XJustify", OptJustifyStr(m.x_justify)),
                "YJustify", OptJustifyStr(m.y_justify))
      font_size == MsgNum(m7, "FontSize", 12)
      y_shift == IF m.y_justify = None THEN 0
                 ELSE CASE m.y_justify[1] = "Top" -> Half(font_size)
                        [] m.y_justify[1] = "Bottom" -> 0 - Half(font_size)
                        [] OTHER -> 0
  IN  Put(m7, "YShift", ValueOf(y_shift))

\* get("X").unwrap() and get("Y").unwrap() panic when the key was never set
start_text_message(m) ==
  LET ms == message_inserts(message_settings, m)
      font_theme == get_font_theme(ms["Font"])
  IN  /\ message_settings' = ms
      /\ document' = flushed
      /\ IF "X" \notin DOMAIN ms \/ "Y" \notin DOMAIN ms
         THEN Return("panic") /\ current_text' = None
         ELSE /\ UNCHANGED outcome
              /\ current_text' = Some(
                   [kind |-> "text",
                    x |-> MsgNum(ms, "X", 0) + MsgNum(ms, "OffsetX", 0),
                    y |-> MsgNum(ms, "Y", 0) + MsgNum(ms, "OffsetY", 0)
                            + MsgNum(ms, "YShift", 0),
                    font_size |-> MsgNum(ms, "FontSize", 12),
                    font_family |-> get_theme(themes, "String", font_theme,
                                              "FONT", "sans-serif"),
                    stroke |-> get_theme(themes, "String", font_theme,
                                         "OUTLINE COLOR", "none"),
                    fill |-> get_theme(themes, "String", font_theme,
                                       "FONT COLOR", "black"),
                    font_style |-> get_theme(themes, "String", font_theme,
                                             "FONT SLANT", "normal"),
                    font_weight |-> get_theme(themes, "String", font_theme,
                                              "FONT BOLD", "normal"),
                    font_stretch |-> get_theme(themes, "String", font_theme,
                                               "FONT STRETCH", "normal"),
                    text_anchor |->
                      IF m.x_justify = None THEN "middle"
                      ELSE CASE m.x_justify[1] = "Left" -> "start"
                             [] m.x_justify[1] = "Right" -> "end"
                             [] OTHER -> "middle",
                    spans |-> << >>])

\* write_text with the line break applied to the segment that asks for it
write_text_now(edge_color, color, text, new_line) ==
  IF current_text = None
  THEN /\ Return("SvgError: No multiline text message started")
       /\ UNCHANGED <<message_settings, current_text>>
  ELSE LET font_theme == get_font_theme(IF "Font" \in DOMAIN message_settings
                                        THEN message_settings["Font"]
                                        ELSE "sans-serif")
           fill == IF color = ""
                   THEN get_theme(themes, "String", font_theme, "FONT COLOR",
                                  "black")
                   ELSE color
           stroke == IF edge_color = "" THEN "none" ELSE edge_color
           ms1 == IF new_line
                  THEN Put(message_settings, "OffsetY",
                           ValueOf(MsgNum(message_settings, "OffsetY", 0)
                                   + MsgNum(message_settings, "LineStep", 15)))
                  ELSE message_settings
           pos == IF new_line
                  THEN <<MsgNum(ms1, "X", 0) + MsgNum(ms1, "OffsetX", 0),
                         MsgNum(ms1, "Y", 0) + MsgNum(ms1, "OffsetY", 0)
                           + MsgNum(ms1, "YShift", 0)>>
                  ELSE << >>
           tspan == [pos |-> pos, stroke |-> stroke, fill |-> fill,
                     content |-> text]
       IN  /\ current_text' = Some([current_text[1] EXCEPT
                                      !.spans = Append(@, tspan)])
           /\ message_settings' = ms1
           /\ UNCHANGED outcome

write_text(edge_color, color, text, new_line) ==
  IF current_text = None
  THEN /\ Return("SvgError: No multiline text message started")
       /\ UNCHANGED <<message_settings, current_text>>
  ELSE LET font_theme == get_font_theme(IF "Font" \in DOMAIN message_settings
                                        THEN message_settings["Font"]
                                        ELSE "sans-serif")
           fill == IF color = ""
                   THEN get_theme(themes, "String", font_theme, "FONT COLOR",
                                  "black")
                   ELSE color
           stroke == IF edge_color = "" THEN "none" ELSE edge_color
           newline == message_settings["Newline"] = "true"
           ms1 == IF newline
                  THEN Put(Put(message_settings, "Newline", "false"), "OffsetY",
                           ValueOf(MsgNum(message_settings, "OffsetY", 0)
                                   + MsgNum(message_settings, "LineStep", 15)))
                  ELSE message_settings
           pos == IF newline
                  THEN <<MsgNum(ms1, "X", 0) + MsgNum(ms1, "OffsetX", 0),
                         MsgNum(ms1, "Y", 0) + MsgNum(ms1, "OffsetY", 0)
                           + MsgNum(ms1, "YShift", 0)>>
                  ELSE << >>
           tspan == [pos |-> pos, stroke |-> stroke, fill |-> fill,
                     content |-> text]
       IN  /\ current_text' = Some([current_text[1] EXCEPT
                                      !.spans = Append(@, tspan)])
           /\ message_settings' = IF new_line THEN Put(ms1, "Newline", "true")
                                  ELSE ms1
           /\ UNCHANGED outcome

\* a draw command of the message session
MessageCmd(c) ==
  /\ Take(c)
  /\ UNCHANGED <<phase, history, themes, pin_func_types, page, cursor>>

Message(m) ==
  /\ MessageCmd([kind |-> "Message", msg |-> m])
  /\ IF Gate("Message") THEN start_text_message(m)
     ELSE Return("InvalidPhase") /\ UNCHANGED <<message, document>>

Text(edge_color, color, text, new_line) ==
  /\ MessageCmd([kind |-> "Text", edge_color |-> edge_color, color |-> color,
                 message |-> text, new_line |-> new_line])
  /\ UNCHANGED document
  /\ IF Gate("Text") THEN write_text(edge_color, color, text, new_line)
     ELSE Return("InvalidPhase") /\ UNCHANGED message

\* end_message that adds the session to the document and leaves it open
EndMessage_keep ==
  /\ MessageCmd([kind |-> "EndMessage"])
  /\ IF Gate("EndMessage")
     THEN /\ document' = flushed
          /\ UNCHANGED <<outcome, message_settings, current_text>>
     ELSE Return("InvalidPhase") /\ UNCHANGED <<message, document>>

EndMessage ==
  /\ MessageCmd([kind |-> "EndMessage"])
  /\ IF Gate("EndMessage")
     THEN /\ document' = flushed
          /\ current_text' = None
          /\ UNCHANGED <<outcome, message_settings>>
     ELSE Return("InvalidPhase") /\ UNCHANGED <<message, document>>

(* --------------------------- images and icons -------------------------- *)
\* sizes of IMAGE / ICON fields are carried in units of 1 / Scale
Scale == 100000
\* the fraction 0.9999 that denotes 100 percent
Full == 99990
\* u32 arithmetic wraps at 2^32; the model keeps the wrap at a narrower
\* word so that the sums stay within the integers of the checker
U32 == 65536

\* get_size that reads 1.0 as a fraction as well
get_size_strict(size, max_size, default) ==
  IF size = None
  THEN IF default = None THEN max_size ELSE default[1]
  ELSE IF size[1] > Scale THEN size[1] \div Scale
       ELSE (size[1] * max_size) \div Full

\* get_size: absent is None; a value >= 1.0 is absolute, a smaller one a
\* fraction of max_size
get_size(size, max_size, default) ==
  IF size = None
  THEN IF default = None THEN max_size ELSE default[1]
  ELSE IF size[1] >= Scale THEN size[1] \div Scale
       ELSE (size[1] * max_size) \div Full

\* f32 as u32 of a crop field (whole units): saturates at both ends
AsU32(v) == IF v < 0 THEN 0 ELSE IF v >= U32 THEN U32 - 1 ELSE v

Max(a, b) == IF a >= b THEN a ELSE b

\* DynamicImage::resize(nw, nh, _): fits nw x nh keeping the aspect ratio
resize(iw, ih, nw, nh) ==
  IF nw * ih <= nh * iw
  THEN <<Max(nw, 1), Max((ih * nw) \div iw, 1)>>
  ELSE <<Max((iw * nh) \div ih, 1), Max(nh, 1)>>

\* write_image that takes an incomplete crop for no crop
write_image_lenient(i, file, overflow_checks) ==
  LET crop_all == i.cx # None /\ i.cy # None /\ i.cw # None /\ i.ch # None
      crop_any == i.cx # None \/ i.cy # None \/ i.cw # None \/ i.ch # None
      cx == AsU32(i.cx[1])
      cy == AsU32(i.cy[1])
      cw == AsU32(i.cw[1])
      ch == AsU32(i.ch[1])
      overflow == cx + cw >= U32 \/ cy + ch >= U32
      cropped == IF crop_all THEN <<cw, ch>> ELSE <<file.width, file.height>>
      sized == IF i.w # None \/ i.h # None
               THEN resize(cropped[1], cropped[2],
                           get_size(i.w, cropped[1], None),
                           get_size(i.h, cropped[2], None))
               ELSE cropped
      x == get_size(i.x, page_resolution[1], Some(0)) - Half(sized[1])
      y == get_size(i.y, page_resolution[2], Some(0)) - Half(sized[2])
  IN  IF ~file.exists
      THEN Return("SvgError: Image file not found") /\ UNCHANGED document
      ELSE IF ~file.decodes
      THEN Return("ImageError") /\ UNCHANGED document
      ELSE IF crop_all /\ overflow /\ overflow_checks
      THEN Return("panic") /\ UNCHANGED document
      ELSE IF crop_all /\ (\/ (cx + cw) % U32 > file.width
                           \/ (cy + ch) % U32 > file.height)
      THEN Return("SvgError: Invalid crop parameters") /\ UNCHANGED document
      ELSE /\ document' = Append(document,
                [kind |-> "image", href |-> "data:image/png", x |-> x, y |-> y,
                 width |-> sized[1], height |-> sized[2],
                 rotate |-> IF i.rot = None THEN None
                            ELSE <<i.rot[1], x + Half(sized[1]),
                                   y + Half(sized[2])>>])
           /\ UNCHANGED outcome

\* i: the fields of Command::Image; file: what the file system holds under
\* i.name (exists, decodes, width, height); overflow_checks: the build traps
\* u32 overflow instead of wrapping
write_image(i, file, overflow_checks) ==
  LET crop_all == i.cx # None /\ i.cy # None /\ i.cw # None /\ i.ch # None
      crop_any == i.cx # None \/ i.cy # None \/ i.cw # None \/ i.ch # None
      cx == AsU32(i.cx[1])
      cy == AsU32(i.cy[1])
      cw == AsU32(i.cw[1])
      ch == AsU32(i.ch[1])
      overflow == cx + cw >= U32 \/ cy + ch >= U32
      cropped == IF crop_all THEN <<cw, ch>> ELSE <<file.width, file.height>>
      sized == IF i.w # None \/ i.h # None
               THEN resize(cropped[1], cropped[2],
                           get_size(i.w, cropped[1], None),
                           get_size(i.h, cropped[2], None))
               ELSE cropped
      x == get_size(i.x, page_resolution[1], Some(0)) - Half(sized[1])
      y == get_size(i.y, page_resolution[2], Some(0)) - Half(sized[2])
  IN  IF ~file.exists
      THEN Return("SvgError: Image file not found") /\ UNCHANGED document
      ELSE IF ~file.decodes
      THEN Return("ImageError") /\ UNCHANGED document
      ELSE IF crop_all /\ overflow /\ overflow_checks
      THEN Return("panic") /\ UNCHANGED document
      ELSE IF crop_all /\ (\/ (cx + cw) % U32 > file.width
                           \/ (cy + ch) % U32 > file.height)
      THEN Return("SvgError: Invalid crop parameters") /\ UNCHANGED document
      ELSE IF ~crop_all /\ crop_any
      THEN /\ Return("SvgError: Crop parameters must all be specified, or none")
           /\ UNCHANGED document
      ELSE /\ document' = Append(document,
                [kind |-> "image", href |-> "data:image/png", x |-> x, y |-> y,
                 width |-> sized[1], height |-> sized[2],
                 rotate |-> IF i.rot = None THEN None
                            ELSE <<i.rot[1], x + Half(sized[1]),
                                   y + Half(sized[2])>>])
           /\ UNCHANGED outcome

\* i: the fields of Command::Icon; file: exists, extension, readable
write_icon(i, file) ==
  LET w == get_size(i.w, 100, Some(100))
      h == get_size(i.h, 100, Some(100))
      x == get_size(i.x, page_resolution[1], Some(0)) - Half(w)
      y == get_size(i.y, page_resolution[2], Some(0)) - Half(h)
  IN  IF ~file.exists
      THEN Return("SvgError: Icon file not found") /\ UNCHANGED document
      ELSE IF file.extension # None /\ file.extension[1] # "svg"
      THEN Return("SvgError: Icon must be an SVG file") /\ UNCHANGED document
      ELSE IF ~file.readable
      THEN Return("IoError") /\ UNCHANGED document
      ELSE /\ document' = Append(document,
                [kind |-> "image", href |-> "data:image/svg+xml", x |-> x,
                 y |-> y, width |-> w, height |-> h,
                 rotate |-> IF i.rot = None THEN None
                            ELSE <<i.rot[1], x + Half(w), y + Half(h)>>])
           /\ UNCHANGED outcome

Image(i, file, overflow_checks) ==
  /\ DrawCmd([kind |-> "Image", image |-> i])
  /\ UNCHANGED offset_y
  /\ IF Gate("Image") THEN write_image(i, file, overflow_checks)
     ELSE Return("InvalidPhase") /\ UNCHANGED document

Icon(i, file) ==
  /\ DrawCmd([kind |-> "Icon", icon |-> i])
  /\ UNCHANGED offset_y
  /\ IF Gate("Icon") THEN write_icon(i, file)
     ELSE Return("InvalidPhase") /\ UNCHANGED document

(* ----------------------------- end of input ---------------------------- *)
\* process_commands without the closing end_message: an open message is
\* dropped
EndOfInput_open ==
  /\ outcome = "running"
  /\ outcome' = "Ok"
  /\ cmd' = [kind |-> "EndOfInput"]
  /\ document' = Append(document, [kind |-> "defs"])
  /\ current_text' = None
  /\ UNCHANGED <<phase, n, history, themes, pin_func_types, page, cursor,
                 message_settings>>

\* after the loop of process_commands: an open message is flushed, the
\* definitions are added and Ok(()) is returned
EndOfInput ==
  /\ outcome = "running"
  /\ outcome' = "Ok"
  /\ cmd' = [kind |-> "EndOfInput"]
  /\ document' = Append(flushed, [kind |-> "defs"])
  /\ current_text' = None
  /\ UNCHANGED <<phase, n, history, themes, pin_func_types, page, cursor,
                 message_settings>>

(* ------------------------------ generate_svg --------------------------- *)
\* generate_svg that saves whatever process_commands left behind
save_to_file_always(created) ==
  /\ outcome \notin {"running", "Saved", "IoError"}
  /\ outcome' = IF created THEN "Saved" ELSE "IoError"
  /\ cmd' = [kind |-> "SaveToFile"]
  /\ UNCHANGED <<phase, n, history, themes, pin_func_types, page, cursor,
                 message, document>>

\* renderer.save_to_file(output_path)? after process_commands(commands)?
\* returned Ok; created: File::create and write! succeed
save_to_file(created) ==
  /\ outcome = "Ok"
  /\ outcome' = IF created THEN "Saved" ELSE "IoError"
  /\ cmd' = [kind |-> "SaveToFile"]
  /\ UNCHANGED <<phase, n, history, themes, pin_func_types, page, cursor,
                 message, document>>

(* ----------------------------- construction ---------------------------- *)
\* SvgRenderer::new() and the entry of process_commands
Constructed(th) ==
  /\ phase = "Setup"
  /\ outcome = "running"
  /\ cmd = [kind |-> "None"]
  /\ n = 0
  /\ validations = 0
  /\ declared = 0
  /\ themes = th
  /\ pin_func_types = << >>
  /\ dpi = DefaultDpi
  /\ page_type = "A4-L"
  /\ page_dimensions = <<297, 210>>
  /\ page_resolution = <<resolution(297, DefaultDpi), resolution(210, DefaultDpi)>>
  /\ anchor_x = 0
  /\ anchor_y = 0
  /\ offset_x = 0
  /\ offset_y = 0
  /\ line_settings = EmptyMap
  /\ message_settings = EmptyMap
  /\ current_text = None
  /\ document = << >>

Init == Constructed(EmptyMap)

(* ------------------------- inputs of the model ------------------------- *)
LabelHeads == {<<"DEFAULT", None, None>>,
               <<"DEFAULT", Some("TYPE"), Some("GROUP")>>,
               <<"LABELS", Some("TYPE"), Some("GROUP")>>,
               <<"DEFAULT", Some("PIN"), None>>,
               <<"DEFAULT", Some("TYPE"), Some("GRP")>>}

LabelLists == {<< >>, <<"VCC">>}

StringKinds == {"FillColor", "BorderColor", "Font", "FontColor", "FontOutline"}
FloatKinds == {"Opacity", "FontSize", "FontOutlineThickness"}

\* the arguments of the theme commands, one record for every kind
ThemeArgs ==
  LET V(kind, a, b) == CASE kind \in StringKinds -> VString(a)
                         [] kind \in FloatKinds -> VFloat(b)
                         [] kind = "FontSlant" -> VFontSlant("Italic")
                         [] kind = "FontBold" -> VFontBoldness("Bold")
                         [] kind = "FontStretch" -> VFontStretch("Condensed")
  IN  {[kind |-> kind, default |-> V(kind, "green", 2),
        pin_type |-> Some(V(kind, "grey", 4)), group |-> None,
        values |-> <<V(kind, "white", 6), V(kind, "pink", 8)>>] :
         kind \in DOMAIN EntryOf}

BoxThemes == {[name |-> "PIN BOX", border_color |-> "black",
               border_opacity |-> 1, fill_color |-> "white", fill_opacity |-> 1,
               line_width |-> 1, box_width |-> 8, box_height |-> 4,
               box_cr_x |-> 0, box_cr_y |-> 0, box_skew |-> 0,
               box_skew_offset |-> 0]}

TextFonts == {[theme_name |-> "Title", font |-> "serif", size |-> 8,
               outline_color |-> "none", color |-> "navy", slant |-> "Italic",
               bold |-> "Bold", stretch |-> "Normal"]}

PageNames == {"A4-P", "A3-L", "Letter"}

DpiValues == {MinDpi - 1, MinDpi, MaxDpi, MaxDpi + 1}

Rows == {[side |-> "Left", packed |-> FALSE, justify_x |-> "Center",
          justify_y |-> "Center", line_step |-> 6, pin_width |-> 4,
          group_width |-> 4, leader_offset |-> 4, column_gap |-> 2,
          leader_h_step |-> 0]}

Pins == {[wire |-> Some("Digital"), pin_type |-> Some("IO"), group |-> None,
          attributes |-> <<"ON">>],
         [wire |-> None, pin_type |-> Some("Input"), group |-> Some("PWR"),
          attributes |-> <<"">>]}

PinTexts == {[wire |-> Some("Pwm"), pin_type |-> None, group |-> None,
              theme |-> "FONT_Title", label |-> Some("A0"), text |-> "note"]}

Boxes == {[theme |-> "PIN BOX", x |-> 10, y |-> 10, box_width |-> None,
           box_height |-> None, x_justify |-> None, y_justify |-> None,
           text |-> Some("hi")]}

Messages == {[x |-> Some(10), y |-> Some(20), line_step |-> None,
              font |-> Some("Title"), font_size |-> None, x_justify |-> None,
              y_justify |-> None],
             [x |-> None, y |-> None, line_step |-> Some(4), font |-> None,
              font_size |-> None, x_justify |-> Some("Left"),
              y_justify |-> Some("Top")]}

Images == {[name |-> "board.png", x |-> Some(49995), y |-> None, w |-> None,
            h |-> None, cx |-> None, cy |-> None, cw |-> None, ch |-> None,
            rot |-> None]}

ImageFiles == {[exists |-> FALSE, decodes |-> FALSE, width |-> 0, height |-> 0],
               [exists |-> TRUE, decodes |-> TRUE, width |-> 40, height |-> 20]}

Icons == {[name |-> "logo.svg", x |-> None, y |-> None, w |-> None, h |-> None,
           rot |-> Some(90)]}

IconFiles == {[exists |-> FALSE, extension |-> Some("svg"), readable |-> FALSE],
              [exists |-> TRUE, extension |-> Some("svg"), readable |-> TRUE]}

(* ---------------------------- specification ---------------------------- *)
More == n < MaxCmds

Next ==
  \/ \E h \in LabelHeads, l \in LabelLists : More /\ Labels(h[1], h[2], h[3], l)
  \/ \E a \in ThemeArgs :
       More /\ ThemeCmd(a.kind, a.default, a.pin_type, a.group, a.values)
  \/ More /\ StoreCmd([kind |-> "BorderWidth", width |-> 2], set_border_width(2))
  \/ More /\ StoreCmd([kind |-> "BorderOpacity", opacity |-> 1],
                      set_border_opacity(1))
  \/ More /\ StoreCmd([kind |-> "Type", pin_type |-> "IO", color |-> "red",
                       opacity |-> 1], set_pin_type("IO", "red", 1))
  \/ More /\ StoreCmd([kind |-> "Wire", wire_type |-> "Digital",
                       color |-> "teal", opacity |-> 1, thickness |-> 2],
                      set_wire_type("Digital", "teal", 1, 2))
  \/ More /\ StoreCmd([kind |-> "Group", name |-> "PWR", color |-> "red",
                       opacity |-> 1], set_group("PWR", "red", 1))
  \/ \E b \in BoxThemes :
       More /\ StoreCmd([kind |-> "BoxTheme", box |-> b], define_box(b))
  \/ \E f \in TextFonts :
       More /\ StoreCmd([kind |-> "TextFont", font |-> f], define_text_font(f))
  \/ \E p \in PageNames : More /\ Page(p)
  \/ \E d \in DpiValues : More /\ Dpi(d)
  \/ More /\ Draw
  \/ More /\ GoogleFont("https://fonts")
  \/ \E i \in Images, f \in ImageFiles : More /\ Image(i, f, TRUE)
  \/ \E i \in Icons, f \in IconFiles : More /\ Icon(i, f)
  \/ More /\ Anchor(100, 100)
  \/ \E r \in Rows : More /\ PinSet(r)
  \/ \E p \in Pins : More /\ Pin(p.wire, p.pin_type, p.group, p.attributes)
  \/ \E p \in PinTexts :
       More /\ PinText(p.wire, p.pin_type, p.group, p.theme, p.label, p.text)
  \/ \E b \in Boxes : More /\ Box(b)
  \/ \E m \in Messages : More /\ Message(m)
  \/ More /\ Text("", "", "hello", TRUE)
  \/ More /\ EndMessage
  \/ EndOfInput

Spec == Init /\ [][Next]_vars

(* ------------- pre-draw validation over stores with box uses ----------- *)
\* check_boxes is a function of the theme store alone and reads the "BOXES"
\* entry of every theme.  No arm of execute_command writes a "BOXES" entry, so
\* the stores it is applied to here are drawn from a set that holds such
\* entries, resolved and dangling, next to the store of construction
BoxUse(th, theme, box) == set_theme_value(th, theme, "BOXES", box)

BoxStores ==
  LET pin_box == Put(EmptyMap, "BOX_PIN BOX", Put(EmptyMap, "WIDTH", VFloat(8)))
  IN  {EmptyMap,
       pin_box,
       BoxUse(EmptyMap, "VCC", VString("PIN BOX")),
       BoxUse(pin_box, "VCC", VString("PIN BOX")),
       BoxUse(pin_box, "DEFAULT", VInt(2)),
       BoxUse(BoxUse(pin_box, "VCC", VString("PIN BOX")), "GPIO",
              VString("WIDE")),
       BoxUse(Put(EmptyMap, "PIN BOX", EmptyMap), "VCC", VString("PIN BOX"))}

InitBoxes == \E th \in BoxStores : Constructed(th)

NextBoxes ==
  \/ \E l \in LabelLists :
       More /\ Labels("DEFAULT", Some("TYPE"), Some("GROUP"), l)
  \/ \E b \in BoxThemes :
       More /\ StoreCmd([kind |-> "BoxTheme", box |-> b], define_box(b))
  \/ More /\ Draw
  \/ More /\ Anchor(100, 100)
  \/ \E b \in Boxes : More /\ Box(b)
  \/ \E m \in Messages : More /\ Message(m)
  \/ EndOfInput

SpecBoxes == InitBoxes /\ [][NextBoxes]_vars

(* ---------------- the theme stores a setup phase can build ------------- *)
\* every command that writes the theme store, with the inputs of Next
NextStore ==
  \/ \E h \in LabelHeads, l \in LabelLists : More /\ Labels(h[1], h[2], h[3], l)
  \/ \E a \in ThemeArgs :
       More /\ ThemeCmd(a.kind, a.default, a.pin_type, a.group, a.values)
  \/ More /\ StoreCmd([kind |-> "BorderWidth", width |-> 2], set_border_width(2))
  \/ More /\ StoreCmd([kind |-> "BorderOpacity", opacity |-> 1],
                      set_border_opacity(1))
  \/ More /\ StoreCmd([kind |-> "Type", pin_type |-> "IO", color |-> "red",
                       opacity |-> 1], set_pin_type("IO", "red", 1))
  \/ More /\ StoreCmd([kind |-> "Wire", wire_type |-> "Digital",
                       color |-> "teal", opacity |-> 1, thickness |-> 2],
                      set_wire_type("Digital", "teal", 1, 2))
  \/ More /\ StoreCmd([kind |-> "Group", name |-> "PWR", color |-> "red",
                       opacity |-> 1], set_group("PWR", "red", 1))
  \/ \E b \in BoxThemes :
       More /\ StoreCmd([kind |-> "BoxTheme", box |-> b], define_box(b))
  \/ \E f \in TextFonts :
       More /\ StoreCmd([kind |-> "TextFont", font |-> f], define_text_font(f))
  \/ More /\ Draw
  \/ EndOfInput

SpecStore == Init /\ [][NextStore]_vars

(* --------------------- page size and dpi commands ---------------------- *)
AllPageNames == {"A4-P", "A4-L", "A3-P", "A3-L", "Letter", "A5"}

AllDpiValues == {MinDpi - 1, MinDpi, 72, 96, DefaultDpi, 600, MaxDpi, MaxDpi + 1}

NextPage ==
  \/ \E p \in AllPageNames : More /\ Page(p)
  \/ \E d \in AllDpiValues : More /\ Dpi(d)
  \/ More /\ Draw
  \/ EndOfInput

SpecPage == Init /\ [][NextPage]_vars

(* ---------------------------- laying out pins -------------------------- *)
PinLabels == <<"VCC", "GPIO", "ADC">>

PinRows ==
  {[side |-> s, packed |-> p, justify_x |-> "Center", justify_y |-> "Center",
    line_step |-> IF s = "Left" THEN 6 ELSE 10, pin_width |-> 4,
    group_width |-> 4, leader_offset |-> 4, column_gap |-> 2,
    leader_h_step |-> 0] : s \in {"Left", "Right"}, p \in BOOLEAN}

RowPins == {[wire |-> Some("Digital"), pin_type |-> Some("IO"), group |-> None,
             attributes |-> <<"A", "", "B">>],
            [wire |-> None, pin_type |-> Some("Input"), group |-> Some("PWR"),
             attributes |-> <<"ON", "OFF">>],
            [wire |-> None, pin_type |-> None, group |-> Some("USB"),
             attributes |-> <<"ON">>]}

RowPinTexts == {[wire |-> Some("Pwm"), pin_type |-> None, group |-> None,
                 theme |-> "FONT_Title", label |-> Some("A0"), text |-> "note"],
                [wire |-> None, pin_type |-> Some("IO"), group |-> Some("USB"),
                 theme |-> "FONT_Title", label |-> None, text |-> ""],
                [wire |-> None, pin_type |-> None, group |-> Some("PWR"),
                 theme |-> "FONT_Title", label |-> None, text |-> "gnd"]}

MorePins == n < MaxPinCmds

NextPins ==
  \/ MorePins /\ Labels("DEFAULT", Some("TYPE"), Some("GROUP"), PinLabels)
  \/ \E b \in BoxThemes :
       MorePins /\ StoreCmd([kind |-> "BoxTheme", box |-> b], define_box(b))
  \/ MorePins /\ StoreCmd([kind |-> "Group", name |-> "PWR", color |-> "red",
                           opacity |-> 1], set_group("PWR", "red", 1))
  \/ MorePins /\ Draw
  \/ MorePins /\ Anchor(100, 100)
  \/ \E r \in PinRows : MorePins /\ PinSet(r)
  \/ \E p \in RowPins :
       MorePins /\ Pin(p.wire, p.pin_type, p.group, p.attributes)
  \/ \E p \in RowPinTexts :
       MorePins /\ PinText(p.wire, p.pin_type, p.group, p.theme, p.label, p.text)
  \/ EndOfInput

SpecPins == Init /\ [][NextPins]_vars

(* ------------------------------ f32 arithmetic ------------------------- *)
\* a finite, non-negative f32 is zero or m * 2^e with 2^23 <= m < 2^24;
\* results are rounded to nearest, ties to even
Zero32 == [m |-> 0, e |-> 0]

RECURSIVE Normal32(_, _)
Normal32(m, e) ==
  IF m = 0 THEN Zero32
  ELSE IF m < 2^23 THEN Normal32(2 * m, e - 1)
  ELSE [m |-> m, e |-> e]

\* an integer below 2^24 as f32
F32Of(i) == Normal32(i, 0)

\* the literals 1.0, 100.0 and 0.9999 as f32
One32 == F32Of(1)
Hundred32 == F32Of(100)
Full32 == [m |-> 16775538, e |-> 0 - 24]

Round32(m, e, up) ==
  IF ~up THEN [m |-> m, e |-> e]
  ELSE IF m + 1 = 2^24 THEN [m |-> 2^23, e |-> e + 1]
  ELSE [m |-> m + 1, e |-> e]

Less32(a, b) ==
  IF b.m = 0 THEN FALSE
  ELSE IF a.m = 0 THEN TRUE
  ELSE a.e < b.e \/ (a.e = b.e /\ a.m < b.m)

\* f32::min
Min32(a, b) == IF Less32(b, a) THEN b ELSE a

\* a * b: the 48-bit product of the significands in two 24-bit halves
Mul32(a, b) ==
  IF a.m = 0 \/ b.m = 0 THEN Zero32
  ELSE LET L == 2^12
           a1 == a.m \div L
           a0 == a.m % L
           b1 == b.m \div L
           b0 == b.m % L
           mid == a1 * b0 + a0 * b1
           low == a0 * b0 + (mid % L) * L
           hi == a1 * b1 + (mid \div L) + (low \div 2^24)
           lo == low % 2^24
       IN  IF hi >= 2^23
           THEN Round32(hi, a.e + b.e + 24,
                        lo > 2^23 \/ (lo = 2^23 /\ hi % 2 = 1))
           ELSE LET m == 2 * hi + (lo \div 2^23)
                    r == lo % 2^23
                IN  Round32(m, a.e + b.e + 23,
                            r > 2^22 \/ (r = 2^22 /\ m % 2 = 1))

RECURSIVE LongDiv(_, _, _, _)
\* bits more quotient bits of rem / b after the quotient q
LongDiv(rem, b, bits, q) ==
  IF bits = 0 THEN <<q, rem>>
  ELSE IF 2 * rem >= b THEN LongDiv(2 * rem - b, b, bits - 1, 2 * q + 1)
  ELSE LongDiv(2 * rem, b, bits - 1, 2 * q)

\* a / b for b # 0
Div32(a, b) ==
  IF a.m = 0 THEN Zero32
  ELSE LET k == IF a.m >= b.m THEN 23 ELSE 24
           qr == LongDiv(a.m % b.m, b.m, k, a.m \div b.m)
       IN  Round32(qr[1], a.e - b.e - k,
                   2 * qr[2] > b.m \/ (2 * qr[2] = b.m /\ qr[1] % 2 = 1))

\* f32 as u32 of a value below 2^24: the whole part
Whole32(a) ==
  IF a.m = 0 \/ a.e < 0 - 23 THEN 0
  ELSE IF a.e >= 0 THEN a.m * 2^a.e
  ELSE a.m \div 2^(0 - a.e)

(* ------------------------- size fields of the parser ------------------- *)
Digits == "0123456789"

IsDigit(c) == \E d \in 0..9 : SubSeq(Digits, d + 1, d + 1) = c

DigitOf(c) == CHOOSE d \in 0..9 : SubSeq(Digits, d + 1, d + 1) = c

RECURSIVE WholeOf(_)
WholeOf(s) ==
  IF s = "" THEN 0
  ELSE 10 * WholeOf(SubSeq(s, 1, Len(s) - 1)) + DigitOf(SubSeq(s, Len(s), Len(s)))

\* str::parse::<f32>() on the whole numerals of the model; Err is None
ParseWhole(s) ==
  IF s # "" /\ \A i \in 1..Len(s) : IsDigit(SubSeq(s, i, i))
  THEN Some(F32Of(WholeOf(s)))
  ELSE None

RECURSIVE trim_start(_)
trim_start(s) ==
  IF s # "" /\ SubSeq(s, 1, 1) = " " THEN trim_start(SubSeq(s, 2, Len(s)))
  ELSE s

RECURSIVE trim_end(_)
trim_end(s) ==
  IF s # "" /\ SubSeq(s, Len(s), Len(s)) = " "
  THEN trim_end(SubSeq(s, 1, Len(s) - 1))
  ELSE s

\* str::trim
trim(s) == trim_end(trim_start(s))

ends_with(s, c) == s # "" /\ SubSeq(s, Len(s), Len(s)) = c

\* parse_f32; Err is None
parse_f32(value) == ParseWhole(value)

\* parse_size; Err is None
parse_size(value) ==
  IF value = "" THEN None
  ELSE IF ends_with(value, "%")
  THEN LET t == trim(value)
           percent_val == ParseWhole(SubSeq(t, 1, Len(t) - 1))
       IN  IF percent_val = None THEN None
           ELSE Some(Div32(Mul32(Full32, Min32(percent_val[1], Hundred32)),
                           Hundred32))
  ELSE parse_f32(value)

\* record.get(k).filter(|s| !s.trim().is_empty()).map(parse_size).transpose():
\* Err is None, Ok(None) is Some(None), Ok(Some(v)) is Some(Some(v))
size_field(field) ==
  IF trim(field) = "" THEN Some(None)
  ELSE IF parse_size(field) = None THEN None
  ELSE Some(parse_size(field))

\* get_size on f32 values
get_size_f32(size, max_size, default) ==
  IF size = None
  THEN IF default = None THEN max_size ELSE default[1]
  ELSE IF ~Less32(size[1], One32) THEN size[1]
       ELSE Mul32(Div32(size[1], Full32), max_size)

(* -------------------------- sizes of image fields ---------------------- *)
\* size arguments in units of 1 / Scale: absent, 0, 0.25, 0.49995, 0.5,
\* 0.9999, 0.99999, 1.0, 2.0, 250.0
SizeValues == {None, Some(0), Some(25000), Some(49995), Some(50000), Some(Full),
               Some(Scale - 1), Some(Scale), Some(2 * Scale), Some(250 * Scale)}

\* max_size arguments: page widths and image widths in whole units
SizeMaxima == {1, 1000, 3507, 9999}

\* default arguments
SizeDefaults == {None, Some(0), Some(7)}

\* one call get_size(size, max_size, default) on a fresh renderer
Measure(size, max_size, default) ==
  /\ cmd.kind = "None"
  /\ cmd' = [kind |-> "get_size", size |-> size, max_size |-> max_size,
             default |-> default,
             result |-> get_size(size, max_size, default)]
  /\ UNCHANGED <<phase, outcome, n, history, themes, pin_func_types, page,
                 cursor, message, document>>

\* the text of a w / h field of an IMAGE record: blank, a percentage or a
\* plain number
SizeFields == {"", " ", "  ", " 50%", "0", "1", "7", "250", "1000"}
                \cup {ToString(p) \o "%" : p \in 0..MaxPercent}

\* a field of an IMAGE record parsed by parse_image_command and handed with
\* the width of the image to get_size(w, img.width() as f32, None) as u32
Field(text, max_size) ==
  /\ cmd.kind = "None"
  /\ cmd' = LET parsed == size_field(text)
                size == IF parsed = None THEN None
                        ELSE Some(get_size_f32(parsed[1], F32Of(max_size), None))
            IN  [kind |-> "size_field", field |-> text, max_size |-> max_size,
                 parsed |-> parsed, size |-> size,
                 pixels |-> IF size = None THEN None ELSE Some(Whole32(size[1]))]
  /\ UNCHANGED <<phase, outcome, n, history, themes, pin_func_types, page,
                 cursor, message, document>>

NextSize ==
  \/ \E s \in SizeValues, m \in SizeMaxima, d \in SizeDefaults : Measure(s, m, d)
  \/ \E t \in SizeFields, m \in SizeMaxima : Field(t, m)

SpecSize == Init /\ [][NextSize]_vars

(* ------------------------------ cropped images ------------------------ *)
\* the presence of cx, cy, cw, ch: all sixteen combinations
CropMasks == [1..4 -> BOOLEAN]

\* crop rectangles <<cx, cy, cw, ch>> in whole units, as f32 `as u32` leaves
\* them: inside a 40 x 20 source, beyond its width, beyond its height, and
\* with a sum beyond the largest u32
CropRects == {<<0, 0, 40, 20>>, <<10, 5, 30, 15>>, <<10, 5, 31, 15>>,
              <<0, 10, 40, 11>>, <<50, 0, 10, 10>>, <<U32 - 1, 0, 1, 10>>,
              <<0, U32 - 1, 10, 2>>, <<U32 - 10, 0, 50, 10>>}

\* Command::Image with the crop fields of rect that mask keeps
Cropped(rect, mask) ==
  [name |-> "board.png", x |-> None, y |-> None, w |-> None, h |-> None,
   cx |-> IF mask[1] THEN Some(rect[1]) ELSE None,
   cy |-> IF mask[2] THEN Some(rect[2]) ELSE None,
   cw |-> IF mask[3] THEN Some(rect[3]) ELSE None,
   ch |-> IF mask[4] THEN Some(rect[4]) ELSE None,
   rot |-> None]

CropImages ==
  {Cropped(<<10, 5, 30, 15>>, m) : m \in CropMasks}
    \cup {Cropped(r, [k \in 1..4 |-> TRUE]) : r \in CropRects}

MoreImages == n < MaxImageCmds

NextImage ==
  \/ MoreImages /\ Draw
  \/ \E i \in CropImages, f \in ImageFiles, overflow_checks \in BOOLEAN :
       MoreImages /\ Image(i, f, overflow_checks)
  \/ EndOfInput

SpecImage == Init /\ [][NextImage]_vars

(* ------------------------ rows on the four sides ----------------------- *)
\* rows of every side parse_pinset_command accepts
SideRows ==
  {[side |-> s, packed |-> p, justify_x |-> "Center", justify_y |-> "Center",
    line_step |-> 10, pin_width |-> 4, group_width |-> 4, leader_offset |-> 4,
    column_gap |-> 2, leader_h_step |-> 0] :
     s \in {"Left", "Right", "Top", "Bottom"}, p \in BOOLEAN}

NextSides ==
  \/ n < MaxSideCmds /\ Labels("DEFAULT", Some("TYPE"), Some("GROUP"), PinLabels)
  \/ \E b \in BoxThemes :
       n < MaxSideCmds /\ StoreCmd([kind |-> "BoxTheme", box |-> b], define_box(b))
  \/ n < MaxSideCmds /\ Draw
  \/ \E r \in SideRows : n < MaxSideCmds /\ PinSet(r)
  \/ \E p \in RowPins :
       n < MaxSideCmds /\ Pin(p.wire, p.pin_type, p.group, p.attributes)
  \/ EndOfInput

SpecSides == Init /\ [][NextSides]_vars

(* ------------------------------ free boxes ----------------------------- *)
\* box themes named PIN BOX of two heights
TallBoxes ==
  {[name |-> "PIN BOX", border_color |-> "black", border_opacity |-> 1,
    fill_color |-> "white", fill_opacity |-> 1, line_width |-> 1,
    box_width |-> 8, box_height |-> h, box_cr_x |-> 0, box_cr_y |-> 0,
    box_skew |-> 0, box_skew_offset |-> 0] : h \in {10, 40}}

\* Box commands with and without a size of their own, of every
\* Y-justification, without text, with empty text, one line and two lines
DrawnBoxes ==
  {[theme |-> "PIN BOX", x |-> 10, y |-> 10, box_width |-> s[1],
    box_height |-> s[2], x_justify |-> None, y_justify |-> j, text |-> t] :
     s \in {<<None, None>>, <<Some(12), Some(6)>>},
     j \in {None, Some("Top"), Some("Center"), Some("Bottom")},
     t \in {None, Some(""), Some("a"), Some("a\\nb")}}

NextBox ==
  \/ \E b \in TallBoxes :
       n < MaxBoxCmds /\ StoreCmd([kind |-> "BoxTheme", box |-> b], define_box(b))
  \/ n < MaxBoxCmds /\ Draw
  \/ \E b \in DrawnBoxes : n < MaxBoxCmds /\ Box(b)
  \/ EndOfInput

SpecBox == Init /\ [][NextBox]_vars

(* -------------------- pin markers and leader lines --------------------- *)
\* leader lengths of a row: none, and one whose quarter is a whole number,
\* as leader_offset / 4.0 * 4.0 is leader_offset in f32
LeaderLengths == {0, 8}

LeadRows ==
  {[side |-> s, packed |-> TRUE, justify_x |-> "Center", justify_y |-> "Center",
    line_step |-> 10, pin_width |-> 4, group_width |-> 4, leader_offset |-> l,
    column_gap |-> 2, leader_h_step |-> 0] :
     s \in {"Left", "Right"}, l \in LeaderLengths}

\* the wire field of a PIN record as parse_pin_command reads it: an empty or
\* unknown name is None
WireKinds == {None} \cup {Some(w) : w \in {"Digital", "Pwm", "Analog",
                                           "HsAnalog", "Power"}}

\* the type field of a PIN record as parse_pin_command reads it
MarkerKinds == {None} \cup {Some(t) : t \in {"IO", "Input", "Output"}}

MoreLeads == n < MaxLeadCmds

NextLeads ==
  \/ MoreLeads /\ Draw
  \/ MoreLeads /\ Anchor(100, 100)
  \/ \E r \in LeadRows : MoreLeads /\ PinSet(r)
  \/ \E w \in WireKinds, t \in MarkerKinds : MoreLeads /\ Pin(w, t, None, << >>)
  \/ EndOfInput

SpecLeads == Init /\ [][NextLeads]_vars

(* ------------------ the command list of parser::Document --------------- *)
\* the kinds matched by is_setup_command; no Command is of kind Label
is_setup_command == {"Label", "BorderColor", "FillColor", "Opacity", "Font",
                     "FontSize", "FontColor", "FontSlant", "FontBold",
                     "FontStretch", "Type", "Wire", "Group", "BoxTheme",
                     "TextFont", "Page", "Dpi"}

\* the kinds matched by is_draw_command
is_draw_command == {"GoogleFont", "Image", "Icon", "Anchor", "PinSet", "Pin",
                    "PinText", "Box", "Message", "Text", "EndMessage"}

\* Document::add_command returns Ok in phase ph
add_command(kind, ph) ==
  \/ kind = "Draw"
  \/ ph = "Setup" /\ kind \in is_setup_command
  \/ ph = "Draw" /\ kind \in is_draw_command

\* the match of process_commands lets the command through: Draw in the setup
\* phase (check_boxes of the store of th), any other by its phase
controller(kind, ph, th) ==
  IF kind = "Draw" /\ ph = "Setup" THEN check_boxes(th)
  ELSE get_command_phase(kind) = ph

CommandKinds == {"Draw"} \cup SetupKinds \cup DrawKinds

\* one command kind offered to a Document and to a renderer that have let
\* the same commands through so far, and so are in the same phase
Offer(kind) ==
  LET added == add_command(kind, phase)
      passed == controller(kind, phase, themes)
  IN  /\ Take([kind |-> kind, added |-> added, passed |-> passed])
      /\ phase' = IF added /\ passed /\ kind = "Draw" THEN "Draw" ELSE phase
      /\ outcome' = IF added /\ passed THEN outcome ELSE "InvalidPhase"
      /\ UNCHANGED <<history, themes, pin_func_types, page, cursor, message,
                     document>>

NextDocument == \E kind \in CommandKinds : n < MaxDocCmds /\ Offer(kind)

SpecDocument == Init /\ [][NextDocument]_vars

(* ----------------------- the lines parse_csv_file reads ---------------- *)
\* the arms of parse_command for Phase::Setup: command name, Command built
SetupArms ==
  {<<"LABELS", "Labels">>, <<"BORDER COLOR", "BorderColor">>,
   <<"BORDER WIDTH", "BorderWidth">>, <<"BORDER OPACITY", "BorderOpacity">>,
   <<"FILL COLOR", "FillColor">>, <<"OPACITY", "Opacity">>, <<"FONT", "Font">>,
   <<"FONT SIZE", "FontSize">>, <<"FONT COLOR", "FontColor">>,
   <<"FONT SLANT", "FontSlant">>, <<"FONT BOLD", "FontBold">>,
   <<"FONT STRETCH", "FontStretch">>, <<"FONT OUTLINE", "FontOutline">>,
   <<"FONT OUTLINE THICKNESS", "FontOutlineThickness">>, <<"TYPE", "Type">>,
   <<"WIRE", "Wire">>, <<"GROUP", "Group">>, <<"BOX", "BoxTheme">>,
   <<"TEXT FONT", "TextFont">>, <<"PAGE", "Page">>, <<"DPI", "Dpi">>}

\* the arms of parse_command for Phase::Draw
DrawArms ==
  {<<"GOOGLEFONT", "GoogleFont">>, <<"IMAGE", "Image">>, <<"ICON", "Icon">>,
   <<"ANCHOR", "Anchor">>, <<"PINSET", "PinSet">>, <<"PIN", "Pin">>,
   <<"PINTEXT", "PinText">>, <<"BOX", "Box">>, <<"MESSAGE", "Message">>,
   <<"TEXT", "Text">>, <<"END MESSAGE", "EndMessage">>}

\* parse_command of a record whose fields parse: the kind of the Command,
\* None for Err(ParserError::InvalidPhase)
parse_command(command_name, ph) ==
  LET arms == IF ph = "Setup" THEN SetupArms ELSE DrawArms
  IN  IF \E a \in arms : a[1] = command_name
      THEN Some((CHOOSE a \in arms : a[1] = command_name)[2])
      ELSE None

\* one iteration of the loop of parse_csv_file, in phase ph: a DRAW line is
\* pushed as Command::Draw whatever the phase
parse_line(command_name, ph) ==
  IF command_name = "DRAW" THEN Some("Draw")
  ELSE parse_command(command_name, ph)

\* the command names of a file, one unknown among them
LineNames == {"DRAW", "NOTE"} \cup {a[1] : a \in SetupArms \cup DrawArms}

\* one line read by parse_csv_file and, when it parses, the Command met by
\* the phase controller of a renderer that is handed the list; parser and
\* renderer have let the same lines through so far, so they are in the same
\* phase
Line(command_name) ==
  LET parsed == parse_line(command_name, phase)
      passed == parsed # None /\ controller(parsed[1], phase, themes)
  IN  /\ Take([kind |-> "Line", name |-> command_name, parsed |-> parsed,
                passed |-> passed])
      /\ phase' = IF passed /\ command_name = "DRAW" THEN "Draw" ELSE phase
      /\ outcome' = IF parsed = None THEN "ParserError: InvalidPhase"
                    ELSE IF passed THEN outcome
                    ELSE IF get_command_phase(parsed[1]) # phase
                    THEN "InvalidPhase"
                    ELSE "SvgError: Box used but not defined"
      /\ UNCHANGED <<history, themes, pin_func_types, page, cursor, message,
                     document>>

NextLines == \E name \in LineNames : n < MaxLines /\ Line(name)

SpecLines == Init /\ [][NextLines]_vars

(* ---------------------- a whole run of generate_svg -------------------- *)
NextRun ==
  \/ Next
  \/ \E created \in BOOLEAN : save_to_file(created)

SpecRun == Init /\ [][NextRun]_vars

(* ------------------- text messages: sessions of segments -------------- *)
\* Command::Message values: position given or continued, font / font size /
\* line step supplied or omitted
Sessions == {[x |-> Some(10), y |-> Some(20), line_step |-> None,
              font |-> None, font_size |-> None, x_justify |-> None,
              y_justify |-> None],
             [x |-> Some(10), y |-> Some(20), line_step |-> Some(4),
              font |-> Some("Title"), font_size |-> Some(8),
              x_justify |-> Some("Left"), y_justify |-> Some("Top")],
             [x |-> None, y |-> None, line_step |-> None, font |-> None,
              font_size |-> None, x_justify |-> None, y_justify |-> None],
             [x |-> None, y |-> Some(30), line_step |-> Some(6),
              font |-> None, font_size |-> Some(14), x_justify |-> None,
              y_justify |-> Some("Bottom")]}

\* Command::Text values
Segments == {[edge_color |-> "", color |-> "", message |-> "a",
              new_line |-> TRUE],
             [edge_color |-> "red", color |-> "blue", message |-> "b",
              new_line |-> FALSE]}

MoreMsg == n < MaxMsgCmds

NextMsg ==
  \/ \E f \in TextFonts :
       MoreMsg /\ StoreCmd([kind |-> "TextFont", font |-> f], define_text_font(f))
  \/ MoreMsg /\ Draw
  \/ \E m \in Sessions : MoreMsg /\ Message(m)
  \/ \E t \in Segments :
       MoreMsg /\ Text(t.edge_color, t.color, t.message, t.new_line)
  \/ MoreMsg /\ EndMessage
  \/ EndOfInput

SpecMsg == Init /\ [][NextMsg]_vars

(* --------------------- text segments and their colours ----------------- *)
\* Command::TextFont values: with and without an outline colour
OutlineFonts == TextFonts \cup
  {[theme_name |-> "Title", font |-> "serif", size |-> 8,
    outline_color |-> "gold", color |-> "teal", slant |-> "Normal",
    bold |-> "Normal", stretch |-> "Normal"]}

\* Command::Message values: a font with a theme of its own, or none
FontSessions == {[x |-> Some(10), y |-> Some(20), line_step |-> None,
                  font |-> f, font_size |-> None, x_justify |-> None,
                  y_justify |-> None] : f \in {None, Some("Title")}}

\* Command::Text values: every combination of empty / given colours
ColourSegments == {[edge_color |-> e, color |-> c, message |-> "a",
                    new_line |-> FALSE] : e \in {"", "red"}, c \in {"", "blue"}}

MoreText == n < MaxTextCmds

NextText ==
  \/ \E f \in OutlineFonts :
       MoreText /\ StoreCmd([kind |-> "TextFont", font |-> f], define_text_font(f))
  \/ MoreText /\ Draw
  \/ \E m \in FontSessions : MoreText /\ Message(m)
  \/ \E t \in ColourSegments :
       MoreText /\ Text(t.edge_color, t.color, t.message, t.new_line)
  \/ EndOfInput

SpecText == Init /\ [][NextText]_vars

(* ------------- one labelled pin on a page: seven commands -------------- *)
\* the k-th command of the pass is of the k-th kind below, its arguments vary
ScenarioLists == {<< >>, <<"VCC">>, <<"VCC", "GPIO">>}

ScenarioAnchors == {<<0, 0>>, <<100, 100>>, <<20, 30>>}

ScenarioRows == PinRows \cup {[r EXCEPT !.leader_offset = 0] : r \in PinRows}

ScenarioPins == {[wire |-> Some("Digital"), pin_type |-> Some("IO"),
                  group |-> None, attributes |-> <<"ON">>],
                 [wire |-> Some("Pwm"), pin_type |-> Some("IO"),
                  group |-> None, attributes |-> <<"ON">>],
                 [wire |-> Some("Digital"), pin_type |-> Some("Output"),
                  group |-> None, attributes |-> <<"ON", "OFF">>],
                 [wire |-> None, pin_type |-> Some("IO"), group |-> Some("PWR"),
                  attributes |-> <<"ON">>]}

NextScenario ==
  \/ \E h \in LabelHeads, l \in ScenarioLists :
       n = 0 /\ Labels(h[1], h[2], h[3], l)
  \/ \E d \in AllDpiValues : n = 1 /\ Dpi(d)
  \/ \E p \in AllPageNames : n = 2 /\ Page(p)
  \/ n = 3 /\ Draw
  \/ \E a \in ScenarioAnchors : n = 4 /\ Anchor(a[1], a[2])
  \/ \E r \in ScenarioRows : n = 5 /\ PinSet(r)
  \/ \E p \in ScenarioPins :
       n = 6 /\ Pin(p.wire, p.pin_type, p.group, p.attributes)
  \/ EndOfInput

SpecScenario == Init /\ [][NextScenario]_vars

(* ------------------ styling a pin row and drawing a pin ---------------- *)
MoreStyle == n < MaxStyleCmds

NextStyle ==
  \/ MoreStyle /\ Labels("DEFAULT", Some("TYPE"), Some("GROUP"), <<"VCC">>)
  \/ \E a \in ThemeArgs :
       MoreStyle /\ ThemeCmd(a.kind, a.default, a.pin_type, a.group, a.values)
  \/ MoreStyle /\ StoreCmd([kind |-> "BorderWidth", width |-> 2],
                           set_border_width(2))
  \/ MoreStyle /\ StoreCmd([kind |-> "BorderOpacity", opacity |-> 1],
                           set_border_opacity(1))
  \/ \E b \in BoxThemes :
       MoreStyle /\ StoreCmd([kind |-> "BoxTheme", box |-> b], define_box(b))
  \/ MoreStyle /\ Draw
  \/ \E r \in Rows : MoreStyle /\ PinSet(r)
  \/ \E p \in Pins : MoreStyle /\ Pin(p.wire, p.pin_type, p.group, p.attributes)
  \/ EndOfInput

SpecStyle == Init /\ [][NextStyle]_vars

(* ------------------------------- claims -------------------------------- *)
Failed == outcome \notin {"running", "Ok"}

\* the renderer state a command can touch
renderer == <<themes, pin_func_types, page, cursor, message, document>>

\* C1: a draw-phase command taken while the phase is Setup, and a setup-phase
\* command taken while the phase is Draw, ends the pass with the phase error;
\* once the phase is Draw it stays Draw.
C1_PhaseOrdering ==
  [][/\ (cmd'.kind \in DrawKinds /\ phase = "Setup") => outcome' = "InvalidPhase"
     /\ (cmd'.kind \in SetupKinds /\ phase = "Draw") => outcome' = "InvalidPhase"
     /\ phase = "Draw" => phase' = "Draw"]_vars

C1_Witness ==
  /\ phase = "Draw"
  /\ cmd.kind \in SetupKinds
  /\ outcome = "InvalidPhase"

\* C2: a Draw command taken while the phase is already Draw is accepted and
\* leaves the renderer state as it was.
C2_SecondDrawAccepted ==
  [][(cmd'.kind = "Draw" /\ phase = "Draw") =>
       /\ outcome' = "running"
       /\ UNCHANGED <<phase, renderer>>]_vars

\* the themes that hold a "BOXES" entry whose box has no BOX_ theme
BoxName(v) == IF v.tag = "String" THEN v.s ELSE ToString(v.n)

Dangling ==
  {t \in DOMAIN themes :
     /\ "BOXES" \in DOMAIN themes[t]
     /\ ("BOX_" \o BoxName(themes[t]["BOXES"])) \notin DOMAIN themes}

ProbeTypes == {"String", "f32"}
ProbeThemes == (DOMAIN themes) \cup {"DEFAULT", "UNDEFINED"}
\* the attributes T holds, those DEFAULT holds, and one nobody holds
ProbeEntries(T) ==
  (IF T \in DOMAIN themes THEN DOMAIN themes[T] ELSE {}) \cup
  (IF "DEFAULT" \in DOMAIN themes THEN DOMAIN themes["DEFAULT"] ELSE {}) \cup
  {"MISSING"}
Fallback(ty) == IF ty = "String" THEN "fallback" ELSE 0 - 7
Unrepresentable(ty) == IF ty = "String" THEN "unrepresentable" ELSE 0 - 9

Has(T, A) == T \in DOMAIN themes /\ A \in DOMAIN themes[T]

Numerals == {ToString(k) : k \in (0 - MaxNum)..MaxNum}

\* a stored value has a rendering in the requested type
Converts(ty, v) ==
  \/ ty = "String"
  \/ v.tag \in {"Float", "Int"}
  \/ v.tag = "String" /\ v.s \in Numerals

Converted(ty, v) ==
  IF ty = "String"
  THEN IF v.tag = "String" THEN v.s
       ELSE IF v.tag \in {"Float", "Int"} THEN ToString(v.n) ELSE Display(v.s)
  ELSE IF v.tag = "String"
       THEN CHOOSE k \in (0 - MaxNum)..MaxNum : ToString(k) = v.s
       ELSE v.n

\* the stored value of (T, A) read in the requested type
Stored(ty, T, A) ==
  IF Converts(ty, themes[T][A]) THEN Converted(ty, themes[T][A])
  ELSE Unrepresentable(ty)

\* C4 as stated: get_theme(T, A, fb) is T's stored value for A if T has one,
\* otherwise DEFAULT's stored value for A if DEFAULT has one, otherwise fb.
C4_StoredValueReturned ==
  \A ty \in ProbeTypes, T \in ProbeThemes : \A A \in ProbeEntries(T) :
    get_theme(themes, ty, T, A, Fallback(ty)) =
      IF Has(T, A) THEN Stored(ty, T, A)
      ELSE IF Has("DEFAULT", A) THEN Stored(ty, "DEFAULT", A)
      ELSE Fallback(ty)

\* C4: get_theme(T, A, fb) is T's stored value for A if T has one that
\* converts to the requested type, otherwise DEFAULT's stored value for A if
\* T is not DEFAULT and DEFAULT has one that converts, otherwise fb; a stored
\* value that does not convert counts as absent.
C4_ConvertibleValueReturned ==
  \A ty \in ProbeTypes, T \in ProbeThemes : \A A \in ProbeEntries(T) :
    get_theme(themes, ty, T, A, Fallback(ty)) =
      IF Has(T, A) /\ Converts(ty, themes[T][A])
      THEN Converted(ty, themes[T][A])
      ELSE IF /\ T # "DEFAULT"
              /\ Has("DEFAULT", A)
              /\ Converts(ty, themes["DEFAULT"][A])
      THEN Converted(ty, themes["DEFAULT"][A])
      ELSE Fallback(ty)

C4_Witness ==
  \E T \in (DOMAIN themes) \ {"DEFAULT"} :
    /\ \E A \in DOMAIN themes[T] :
         /\ ~Converts("f32", themes[T][A])
         /\ get_theme(themes, "f32", T, A, Fallback("f32")) = Fallback("f32")
    /\ "DEFAULT" \in DOMAIN themes
    /\ \E A \in DOMAIN themes["DEFAULT"] :
         /\ A \notin DOMAIN themes[T]
         /\ get_theme(themes, "String", T, A, Fallback("String")) =
              Converted("String", themes["DEFAULT"][A])

\* C5: after a Labels command has succeeded every later Labels command fails.
C5_SecondLabelsFails ==
  [][(cmd'.kind = "Labels" /\ declared >= 1) => Failed']_vars

\* a Labels command whose leading fields are not DEFAULT, TYPE, GROUP
BadHead(c) ==
  \/ c.head[1] # "DEFAULT"
  \/ c.head[2] # None /\ c.head[2][1] # "TYPE"
  \/ c.head[3] # None /\ c.head[3][1] # "GROUP"

\* C6: a Labels command whose leading fields are not DEFAULT, TYPE, GROUP
\* fails and leaves the pin-function label list and the theme store as they
\* were.
C6_BadHeadRejected ==
  [][(cmd'.kind = "Labels" /\ BadHead(cmd')) =>
       /\ Failed'
       /\ UNCHANGED <<themes, pin_func_types>>]_vars

C6_Witness ==
  /\ cmd.kind = "Labels"
  /\ BadHead(cmd)
  /\ outcome = "SvgError: First labels must be DEFAULT, TYPE, GROUP"
  /\ themes # EmptyMap

\* C7: theme data is never deleted: a theme that exists still exists after
\* every step, and still holds every attribute it held.
C7_NeverDeleted ==
  [][\A T \in DOMAIN themes :
       /\ T \in DOMAIN themes'
       /\ \A A \in DOMAIN themes[T] : A \in DOMAIN themes'[T]]_vars

\* the value the setup commands wrote for an attribute of label L: the entry
\* set_theme / set_border_width / set_border_opacity stored for L, else the
\* one they stored for DEFAULT, else the fallback of the text-box renderer
Written(ty, L, entry, fallback) == get_theme(themes, ty, L, entry, fallback)

\* the style of a drawn box is the style the setup commands wrote for L
StyledAsWritten(box, L) ==
  LET fontcolor == Written("String", L, "Font Color", "yellow")
  IN  /\ box.rect.fill = Written("String", L, "Fill Color", "blue")
      /\ box.rect.fill_opacity = Written("f32", L, "Opacity", 50)
      /\ box.rect.stroke = Written("String", L, "Border Color", "red")
      /\ box.rect.stroke_width = Written("f32", L, "Border Width", 1)
      /\ box.rect.stroke_opacity = Written("f32", L, "Border Opacity", 1)
      /\ \A t \in Range(box.texts) :
           /\ t.font_family = Written("String", L, "Font", "sans-serif")
           /\ t.font_size = Written("f32", L, "Font Size", 10)
           /\ t.fill = fontcolor
           /\ t.font_style = Written("String", L, "Font Slant", "normal")
           /\ t.font_weight = Written("String", L, "Font Bold", "normal")
           /\ t.font_stretch = Written("String", L, "Font Stretch", "normal")
           /\ t.stroke = Written("String", L, "Font Outline", fontcolor)
           /\ t.stroke_width = Written("f32", L, "Font Outline Thickness", 0)

\* C8: every box a Pin command draws for the label L of a non-empty attribute
\* carries the style values the setup-phase theme commands wrote for L or,
\* failing that, for DEFAULT.
C8_WrittenStyleDrawn ==
  [][(cmd'.kind = "Pin" /\ outcome' = "running") =>
       \A i \in (Len(document) + 1)..Len(document') :
         document'[i].kind = "g" =>
           \E j \in 1..Len(cmd'.attributes) :
             /\ j <= Len(pin_func_types)
             /\ cmd'.attributes[j] # ""
             /\ StyledAsWritten(document'[i], pin_func_types[j])]_vars

\* C9: once the phase is Draw no step changes the theme store or the
\* pin-function label list.
C9_StoreFrozenInDraw ==
  [][phase = "Draw" => UNCHANGED <<themes, pin_func_types>>]_vars

C9_Witness ==
  /\ phase = "Draw"
  /\ cmd.kind \in DrawKinds
  /\ outcome = "running"
  /\ document # << >>
  /\ themes # EmptyMap

\* C10: a Dpi command taken in the Setup phase is accepted, and sets dpi, when
\* its value is in 50..1200, and fails otherwise; a Dpi command that fails
\* leaves dpi and the pixel resolution as they were.
C10_DpiRange ==
  [][cmd'.kind = "Dpi" =>
       /\ phase = "Setup" =>
            IF cmd'.dpi >= 50 /\ cmd'.dpi <= 1200
            THEN outcome' = "running" /\ dpi' = cmd'.dpi
            ELSE outcome' = "SvgError: DPI must be between 50 and 1200"
       /\ Failed' => UNCHANGED <<dpi, page_resolution>>]_vars

C10_Witness ==
  /\ cmd.kind = "Dpi"
  /\ cmd.dpi = 1201
  /\ Failed
  /\ dpi = 50
  /\ page_resolution # <<resolution(297, DefaultDpi), resolution(210, DefaultDpi)>>

\* C11: in every state the page dimensions are those of the current page type
\* and the pixel resolution on each axis is floor(mm * dpi / 25.4), that is
\* the integer r with r * 25.4 <= mm * dpi < (r + 1) * 25.4.
C11_ResolutionInvariant ==
  /\ page_dimensions =
       CASE page_type = "A4-P" -> <<210, 297>>
         [] page_type = "A4-L" -> <<297, 210>>
         [] page_type = "A3-P" -> <<297, 420>>
         [] page_type = "A3-L" -> <<420, 297>>
  /\ \A i \in {1, 2} :
       /\ page_resolution[i] * 254 <= page_dimensions[i] * dpi * 10
       /\ page_dimensions[i] * dpi * 10 < (page_resolution[i] + 1) * 254

C11_Witness ==
  /\ cmd.kind = "Page"
  /\ cmd.page_name = "Letter"
  /\ Failed
  /\ dpi = 72
  /\ page_type = "A3-P"
  /\ page_resolution = <<841, 1190>>

PinKinds == {"Pin", "PinText"}

\* C12: a Pin or PinText command that succeeds adds the line step of the most
\* recent PinSet command to the vertical running offset and leaves the
\* horizontal one; a successful Anchor command sets the anchor and resets both
\* running offsets to zero; a PinSet command records its line step and leaves
\* anchor and offsets; no other step moves the running offsets.
C12_RunningOffset ==
  [][/\ (cmd'.kind \in PinKinds /\ outcome' = "running") =>
          /\ \E step \in 0..MaxNum :
               /\ ToString(step) = line_settings["LINESTEP"]
               /\ offset_y' = offset_y + step
          /\ UNCHANGED <<offset_x, anchor_x, anchor_y, line_settings>>
     /\ (cmd'.kind = "Anchor" /\ outcome' = "running") =>
          /\ <<anchor_x', anchor_y'>> = <<cmd'.x, cmd'.y>>
          /\ <<offset_x', offset_y'>> = <<0, 0>>
     /\ (cmd'.kind = "PinSet" /\ outcome' = "running") =>
          /\ line_settings'["LINESTEP"] = ToString(cmd'.row.line_step)
          /\ UNCHANGED <<anchor_x, anchor_y, offset_x, offset_y>>
     /\ (cmd'.kind \notin (PinKinds \cup {"Anchor"}) \/ outcome' # "running") =>
          UNCHANGED <<offset_x, offset_y>>]_vars

\* two pins drawn in rows of different line steps, then an Anchor
C12_Witness ==
  /\ cmd.kind = "Anchor"
  /\ outcome = "running"
  /\ offset_y = 0
  /\ anchor_y = 100
  /\ Len(SelectSeq(document, LAMBDA e : e.kind = "polygon")) = 2
  /\ line_settings["LINESTEP"] = "10"

\* C13: a Pin or PinText command taken in the Draw phase while no row
\* configuration is held fails with the row-not-configured error and leaves
\* document and cursor; the row configuration is empty until the first PinSet
\* command succeeds and is never empty afterwards, an Anchor command included.
C13_RowNotConfigured ==
  [][/\ (cmd'.kind \in PinKinds /\ phase = "Draw" /\ line_settings = EmptyMap) =>
          /\ outcome' = "SvgError: Line not setup with prior PINSET"
          /\ UNCHANGED <<document, cursor>>
     /\ (cmd'.kind = "PinSet" /\ outcome' = "running") => line_settings' # EmptyMap
     /\ cmd'.kind # "PinSet" => line_settings' = line_settings]_vars

C13_Witness ==
  /\ cmd.kind = "Pin"
  /\ outcome = "SvgError: Line not setup with prior PINSET"
  /\ anchor_x = 100
  /\ document = << >>

\* the group circles of a document: the circles drawn with a 2 wide stroke
GroupCircles(doc) ==
  SelectSeq(doc, LAMBDA e : e.kind = "circle" /\ "stroke_width" \in DOMAIN e)

\* C14: a Pin or PinText command that reaches its handler with a row
\* configured and names a group G without a GROUP_G theme fails with the
\* undefined-group error and leaves the document and the running offsets; one
\* that names a group with a theme adds exactly one group circle; one that
\* names no group adds none.
C14_UndefinedGroup ==
  [][(cmd'.kind \in PinKinds /\ phase = "Draw" /\ line_settings # EmptyMap) =>
       IF cmd'.group = None
       THEN GroupCircles(document') = GroupCircles(document)
       ELSE IF ("GROUP_" \o cmd'.group[1]) \in DOMAIN themes
       THEN Len(GroupCircles(document')) = Len(GroupCircles(document)) + 1
       ELSE /\ outcome' = "SvgError: PinGroup is not defined"
            /\ UNCHANGED <<document, offset_x, offset_y>>]_vars

C14_Witness ==
  /\ cmd.kind \in PinKinds
  /\ cmd.group = Some("USB")
  /\ outcome = "SvgError: PinGroup is not defined"
  /\ Len(GroupCircles(document)) = 1
  /\ offset_y > 0

\* the number a stored row setting denotes
RowNum(key) == CHOOSE k \in 0..MaxNum : ToString(k) = line_settings[key]

\* the boxes a step adds to the document, in the order drawn
NewBoxes(old, new) ==
  SelectSeq(SubSeq(new, Len(old) + 1, Len(new)), LAMBDA e : e.kind = "g")

\* the edges of the rectangle of a drawn box, in page coordinates
LeftEdge(box) == box.tx + box.rect.x
RightEdge(box) == box.tx + box.rect.x + box.rect.width

\* the columns of a Pin command that are drawn: non-empty, with a label
DrawnCols(c, labels) ==
  {j \in 1..Len(c.attributes) : j <= Len(labels) /\ c.attributes[j] # ""}

\* C15: in a LEFT or RIGHT row with gap g the boxes of one Pin command are
\* drawn one per non-empty column, and from one drawn box to the next the
\* position moves away from the pin by (g + width of the box just drawn), plus
\* (g + box width) for every empty column between them in an unpacked row and
\* nothing for those in a packed row.
C15_ColumnAdvance ==
  [][(/\ cmd'.kind = "Pin"
      /\ outcome' = "running"
      /\ line_settings["SIDE"] \in {"LEFT", "RIGHT"}) =>
       LET cols == DrawnCols(cmd', pin_func_types)
           boxes == NewBoxes(document, document')
           Rank(j) == Cardinality({i \in cols : i <= j})
           away == IF line_settings["SIDE"] = "LEFT" THEN 0 - 1 ELSE 1
           g == RowNum("GAP")
           skipped(w) == IF line_settings["PACK"] = "PACKED" THEN 0 ELSE g + w
       IN  /\ Len(boxes) = Cardinality(cols)
           /\ \A j1, j2 \in cols :
                (j1 < j2 /\ ~ \E j \in cols : j1 < j /\ j < j2) =>
                  LET b1 == boxes[Rank(j1)]
                      b2 == boxes[Rank(j2)]
                  IN  away * (LeftEdge(b2) - LeftEdge(b1)) =
                        (g + b1.rect.width) +
                        (j2 - j1 - 1) * skipped(b1.rect.width)]_vars

\* C16: a box a Pin command draws after non-empty columns only stands at the
\* running box offset (group width + leader length, plus gap and width of
\* every box before it, away from the pin): in a LEFT row its right edge is at
\* anchor_x + offset_x + that offset, in a RIGHT row its left edge is.
C16_BoxEdge ==
  [][(/\ cmd'.kind = "Pin"
      /\ outcome' = "running"
      /\ line_settings["SIDE"] \in {"LEFT", "RIGHT"}) =>
       LET cols == DrawnCols(cmd', pin_func_types)
           boxes == NewBoxes(document, document')
           left == line_settings["SIDE"] = "LEFT"
           start == RowNum("GROUPWIDTH") + RowNum("LEADER")
       IN  \A j \in cols :
             (\A i \in 1..j : i \in cols) =>
               LET running == start + (j - 1) * (RowNum("GAP") + boxes[j].rect.width)
               IN  IF left
                   THEN RightEdge(boxes[j]) = anchor_x + offset_x - running
                   ELSE LeftEdge(boxes[j]) = anchor_x + offset_x + running]_vars

\* the elements of a kind in a document
OfKind(doc, kind) == SelectSeq(doc, LAMBDA e : e.kind = kind)

\* the pass so far is Labels(DEFAULT, TYPE, GROUP, [VCC]); Dpi(300);
\* Page(A4-L); Draw; Anchor(100, 100); PinSet with a leader; Pin(DIGITAL, IO,
\* no group, ["ON"]): the seventh command is that Pin, and the commands of
\* the first six positions left the values only those arguments leave
ScenarioTaken ==
  /\ n = 7
  /\ cmd = [kind |-> "Pin", wire |-> Some("Digital"), pin_type |-> Some("IO"),
            group |-> None, attributes |-> <<"ON">>]
  /\ pin_func_types = <<"VCC">>
  /\ dpi = 300
  /\ page_type = "A4-L"
  /\ <<anchor_x, anchor_y>> = <<100, 100>>
  /\ line_settings["LEADER"] # "0"

Closed == IF current_text = None THEN document
          ELSE Append(document, current_text[1])

\* the open session of the next state is the open session with one segment,
\* holding the text of the command, added after its segments
Extended ==
  /\ current_text # None
  /\ current_text' # None
  /\ LET old == current_text[1]
         new == current_text'[1]
     IN  /\ Len(new.spans) = Len(old.spans) + 1
         /\ SubSeq(new.spans, 1, Len(old.spans)) = old.spans
         /\ new.spans[Len(new.spans)].content = cmd'.message
         /\ new = [old EXCEPT !.spans = new.spans]

\* C18: the one open session is added to the document, whole and once, by the
\* next successful Message, by EndMessage or by the end of the input, and by
\* nothing else; a successful Message opens a session without segments; a
\* successful Text adds its segment at the end of the open session and leaves
\* the document alone; a pass that returns Ok leaves no session open.
C18_SessionFlushedOnce ==
  [][/\ outcome' \in {"running", "Ok"} =>
          CASE cmd'.kind = "Message" ->
                 /\ document' = Closed
                 /\ current_text' # None
                 /\ current_text'[1].spans = << >>
            [] cmd'.kind = "Text" -> document' = document /\ Extended
            [] cmd'.kind = "EndMessage" ->
                 document' = Closed /\ current_text' = None
            [] cmd'.kind = "EndOfInput" ->
                 /\ document' = Append(Closed, [kind |-> "defs"])
                 /\ current_text' = None
            [] OTHER -> current_text' = current_text
     /\ outcome' = "Ok" => current_text' = None]_vars

\* a pass returned Ok with two sessions in the document, the first flushed by
\* the Message that began the second, the second by the end of the input
C18_Witness ==
  /\ outcome = "Ok"
  /\ cmd.kind = "EndOfInput"
  /\ current_text = None
  /\ Len(document) = 3
  /\ document[1].kind = "text" /\ Len(document[1].spans) = 2
  /\ document[2].kind = "text" /\ Len(document[2].spans) = 1
  /\ document[3].kind = "defs"

(* -------------------------- C19: deferred newline ---------------------- *)
\* the pending-newline flag of the session
Pending == message_settings["Newline"] = "true"

\* the number a stored setting denotes
Setting(ms, key) == CHOOSE k \in (0 - MaxNum)..MaxNum : ToString(k) = ms[key]

\* the segments up to the i-th that were moved to a new line
Moved(spans, i) == Cardinality({j \in 1..i : spans[j].pos # << >>})

\* every moved segment of the open session is at the session's x, as many
\* line steps under the session's y as segments up to it were moved
OnLines ==
  current_text # None =>
    LET e == current_text[1]
    IN  \A i \in DOMAIN e.spans :
          e.spans[i].pos # << >> =>
            e.spans[i].pos =
              <<e.x, e.y + Setting(message_settings, "LineStep")
                             * Moved(e.spans, i)>>

\* C19: a successful Text moves the segment it appends exactly when the flag
\* was pending before it: the vertical offset is first advanced by one line
\* step and the segment placed at the session's x on the new line, otherwise
\* the offset stays and the segment is not placed; afterwards the flag is
\* pending exactly when that Text asked for a new line.  A successful Message
\* clears the flag, so the new line asked for by the last segment of a session
\* never advances anything, and the first segment of a session is never
\* moved: the k-th segment is on the line counted by the earlier segments of
\* its session that asked for a new line.
C19_DeferredNewline ==
  /\ []OnLines
  /\ [][/\ (cmd'.kind = "Text" /\ outcome' = "running") =>
            LET ms == message_settings
                step == IF Pending THEN Setting(ms, "LineStep") ELSE 0
                span == current_text'[1].spans[Len(current_text'[1].spans)]
            IN  /\ Setting(message_settings', "OffsetY")
                     = Setting(ms, "OffsetY") + step
                /\ span.pos = IF Pending
                              THEN <<Setting(ms, "X") + Setting(ms, "OffsetX"),
                                     Setting(ms, "Y") + Setting(ms, "OffsetY")
                                       + step + Setting(ms, "YShift")>>
                              ELSE << >>
                /\ Pending' <=> cmd'.new_line
                /\ \A k \in DOMAIN ms \ {"Newline", "OffsetY"} :
                     message_settings'[k] = ms[k]
        /\ (cmd'.kind = "Message" /\ outcome' = "running") => ~Pending'
        /\ cmd'.kind \notin {"Text", "Message"} =>
             message_settings' = message_settings]_vars

\* three segments in the open session: the first asked for a new line, the
\* second was moved one line down and did not ask, the third was not moved
\* and asked, which is pending
C19_Witness ==
  /\ outcome = "running"
  /\ cmd.kind = "Text"
  /\ current_text # None
  /\ Len(current_text[1].spans) = 3
  /\ current_text[1].spans[1].pos = << >>
  /\ current_text[1].spans[2].pos = <<10, 35>>
  /\ current_text[1].spans[3].pos = << >>
  /\ Pending
  /\ message_settings["OffsetY"] = "15"

(* -------------------- C20: settings carried over ----------------------- *)
\* the setting a Message leaves under key: the value it supplies, else the
\* one already recorded, else the built-in one
Resolved(supplied, key, builtin) ==
  IF supplied # None THEN supplied[1]
  ELSE IF key \in DOMAIN message_settings THEN message_settings[key]
  ELSE builtin

\* the decimal string of a supplied number
Decimal(opt) == IF opt = None THEN None ELSE Some(ToString(opt[1]))

\* C20: a Message that reaches start_text_message records, for font, font
\* size and line step, the value it supplies, or else keeps the recorded one,
\* or else records sans-serif / 12 / 15; the session it opens has that font
\* size and the family of that font's theme, and a line advance of the
\* session is by that line step; no other command changes the three settings.
C20_SettingsCarried ==
  [][/\ (cmd'.kind = "Message" /\ outcome' = "running") =>
          /\ message_settings'["Font"]
               = Resolved(cmd'.msg.font, "Font", "sans-serif")
          /\ message_settings'["FontSize"]
               = Resolved(Decimal(cmd'.msg.font_size), "FontSize", "12")
          /\ message_settings'["LineStep"]
               = Resolved(Decimal(cmd'.msg.line_step), "LineStep", "15")
          /\ current_text'[1].font_size = Setting(message_settings', "FontSize")
          /\ current_text'[1].font_family
               = get_theme(themes, "String",
                           get_font_theme(message_settings'["Font"]), "FONT",
                           "sans-serif")
     /\ (cmd'.kind = "Text" /\ outcome' = "running" /\ Pending) =>
          Setting(message_settings', "OffsetY")
            = Setting(message_settings, "OffsetY")
              + Setting(message_settings, "LineStep")
     /\ cmd'.kind # "Message" =>
          \A k \in {"Font", "FontSize", "LineStep"} :
            /\ k \in DOMAIN message_settings' <=> k \in DOMAIN message_settings
            /\ k \in DOMAIN message_settings =>
                 message_settings'[k] = message_settings[k]]_vars

\* a Message that supplies none of the three opened a session after one that
\* supplied Title / 8 / 4: the session has size 8 and the family of Title
C20_Witness ==
  /\ outcome = "running"
  /\ cmd.kind = "Message"
  /\ cmd.msg.font = None /\ cmd.msg.font_size = None
  /\ cmd.msg.line_step = None
  /\ current_text # None
  /\ current_text[1].font_size = 8
  /\ current_text[1].font_family = "serif"
  /\ message_settings["Font"] = "Title"
  /\ message_settings["LineStep"] = "4"

(* ------------------ C21: position of a message session ----------------- *)
\* C21: a successful Message that omits x does not open its session at the x
\* of the session before it, one that omits y does not open it at the y of
\* the session before it, and the session it opens starts with no vertical
\* offset left over from the lines of the session before it.
C21_PositionNotCarried ==
  [][(/\ cmd'.kind = "Message"
      /\ outcome' = "running"
      /\ {"X", "Y", "OffsetX", "OffsetY"} \subseteq DOMAIN message_settings) =>
       /\ cmd'.msg.x = None =>
            current_text'[1].x # Setting(message_settings, "X")
                                 + Setting(message_settings, "OffsetX")
       /\ cmd'.msg.y = None =>
            current_text'[1].y - Setting(message_settings', "YShift")
              - Setting(message_settings', "OffsetY")
              # Setting(message_settings, "Y")
       /\ Setting(message_settings', "OffsetY") = 0]_vars

(* ----------------------- C22: colours of a segment --------------------- *)
\* the last segment of the open session
LastSpan(t) == t[1].spans[Len(t[1].spans)]

\* the font theme of the open session
SessionTheme == get_font_theme(message_settings["Font"])

\* C22: the segment a successful Text appends is filled with the given
\* colour, or with the font colour of the session's font theme when none is
\* given, and outlined with the given edge colour, or with the outline colour
\* of the session's font theme when none is given.
C22_ColoursResolved ==
  [][(cmd'.kind = "Text" /\ outcome' = "running") =>
       /\ LastSpan(current_text').fill
            = IF cmd'.color = ""
              THEN get_theme(themes, "String", SessionTheme, "FONT COLOR",
                             "black")
              ELSE cmd'.color
       /\ LastSpan(current_text').stroke
            = IF cmd'.edge_color = ""
              THEN get_theme(themes, "String", SessionTheme, "OUTLINE COLOR",
                             "none")
              ELSE cmd'.edge_color]_vars

(* ---------------------------- C23: fail-fast --------------------------- *)
\* process_commands returned an error
Erred == outcome \notin {"running", "Ok", "Saved", "IoError", "panic"}

\* C23: the step on which a command fails neither flushes nor touches the
\* open message session; once a command has failed nothing changes any more:
\* no later command is dispatched, the session stays unflushed and no file is
\* written; a file is written only after process_commands returned Ok.
C23_FailFast ==
  [][/\ ~Erred
     /\ Erred' => /\ current_text' = current_text
                  /\ OfKind(document', "text") = OfKind(document, "text")
                  /\ n' = n + 1
     /\ outcome' = "Saved" => outcome = "Ok"]_vars

\* a command failed while a message session with a segment was open
C23_Witness ==
  /\ Erred
  /\ current_text # None
  /\ Len(current_text[1].spans) = 1
  /\ OfKind(document, "text") = << >>

(* ------------------------- C24: size normalization --------------------- *)
\* r is the whole part of the quotient a / b of two naturals, b > 0
WholePart(r, a, b) == r * b <= a /\ a < (r + 1) * b

\* C24: get_size returns a present value of 1.0 or more as it is, a present
\* value below 1.0 as (value / 0.9999) * max_size, which for 0.9999 is
\* max_size itself, and for an absent value the default when there is one
\* and max_size otherwise.  Results of a call are read in whole units; for a
\* parsed field the f32 result is compared: the f32 0.9999 gives max_size
\* itself, a value of 1.0 or more itself, an absent value max_size.
C24_SizeNormalized ==
  /\ cmd.kind = "get_size" =>
       /\ (cmd.size # None /\ cmd.size[1] >= Scale) =>
            WholePart(cmd.result, cmd.size[1], Scale)
       /\ (cmd.size # None /\ cmd.size[1] < Scale) =>
            WholePart(cmd.result, cmd.size[1] * cmd.max_size, Full)
       /\ cmd.size = Some(Full) => cmd.result = cmd.max_size
       /\ cmd.size = Some(Scale) => cmd.result = 1
       /\ (cmd.size = None /\ cmd.default # None) => cmd.result = cmd.default[1]
       /\ (cmd.size = None /\ cmd.default = None) => cmd.result = cmd.max_size
  /\ (cmd.kind = "size_field" /\ cmd.parsed # None) =>
       /\ cmd.parsed = Some(Some(Full32)) => cmd.size = Some(F32Of(cmd.max_size))
       /\ (cmd.parsed[1] # None /\ ~Less32(cmd.parsed[1][1], One32)) =>
            cmd.size = cmd.parsed[1]
       /\ cmd.parsed[1] = None => cmd.size = Some(F32Of(cmd.max_size))

\* get_size(1.0, 1000, _) was taken
C24_Witness ==
  /\ cmd.kind = "get_size"
  /\ cmd.size = Some(Scale)
  /\ cmd.max_size = 1000
  /\ cmd.result = 1

(* -------------------- C25: percentages, parser to renderer ------------- *)
\* the field is the percentage p
IsPercent(p) == trim(cmd.field) = ToString(p) \o "%"

\* C25: a field "p%" with p in 0..100 parses to 0.9999 * p / 100, which is
\* below 1.0, and get_size makes of it p / 100 of max_size (compared where
\* that is a whole number, also as the pixel count); a percentage above 100
\* parses as 100% does; a blank field parses to an absent value and a plain
\* number to itself.
C25_PercentRoundTrip ==
  cmd.kind = "size_field" =>
    /\ \A p \in 0..100 :
         IsPercent(p) =>
           /\ cmd.parsed = Some(Some(Div32(Mul32(Full32, F32Of(p)), Hundred32)))
           /\ Less32(cmd.parsed[1][1], One32)
           /\ (p * cmd.max_size) % 100 = 0 =>
                /\ cmd.size = Some(F32Of((p * cmd.max_size) \div 100))
                /\ cmd.pixels = Some((p * cmd.max_size) \div 100)
    /\ \A p \in 101..MaxPercent :
         IsPercent(p) => cmd.parsed = Some(parse_size("100%"))
    /\ trim(cmd.field) = "" => cmd.parsed = Some(None)
    /\ \A k \in {0, 1, 7, 250, 1000} :
         cmd.field = ToString(k) => cmd.parsed = Some(Some(F32Of(k)))

(* --------------------------- C26: partial crop ------------------------- *)
CropFields(i) == <<i.cx, i.cy, i.cw, i.ch>>

\* the crop fields present in the Image
Present(i) == {k \in 1..4 : CropFields(i)[k] # None}

PartialCrop == "SvgError: Crop parameters must all be specified, or none"

\* C26: an Image of the draw phase with one, two or three of cx, cy, cw, ch
\* fails and leaves the document as it was; with all four or none of them
\* the Image does not fail with the partial-crop error.
C26_PartialCropFails ==
  [][(cmd'.kind = "Image" /\ phase = "Draw") =>
       IF Cardinality(Present(cmd'.image)) \in 1..3
       THEN Erred' /\ document' = document
       ELSE outcome' # PartialCrop]_vars

\* an Image with cx, cy and cw but no ch failed with the partial-crop error
\* after an Image that was added
C26_Witness ==
  /\ outcome = PartialCrop
  /\ cmd.kind = "Image"
  /\ Present(cmd.image) = {1, 2, 3}
  /\ Len(OfKind(document, "image")) = 1

(* --------------------------- C27: crop bounds -------------------------- *)
InvalidCrop == "SvgError: Invalid crop parameters"

\* the file of the Image is there and decodes
Decoded == outcome' \notin {"SvgError: Image file not found", "ImageError"}

\* C27: an Image of the draw phase with all four crop fields, whose file
\* decodes to a 40 x 20 source, fails with the invalid-crop error whenever
\* cx + cw is more than 40 or cy + ch more than 20, whatever the size of the
\* sums, and an image is added only when the rectangle lies inside the source.
C27_CropBounds ==
  [][(/\ cmd'.kind = "Image"
      /\ phase = "Draw"
      /\ Present(cmd'.image) = 1..4
      /\ Decoded) =>
       LET i == cmd'.image
           inside == i.cx[1] + i.cw[1] <= 40 /\ i.cy[1] + i.ch[1] <= 20
       IN  /\ ~inside => outcome' = InvalidCrop
           /\ document' # document => inside]_vars

(* ------------------ C28: one classification of the kinds --------------- *)
\* C28: a command kind offered in a phase is accepted by
\* Document::add_command exactly when the phase controller of the renderer
\* lets it through.
C28_SameClassification ==
  cmd.kind \in CommandKinds => cmd.added = cmd.passed

(* ------------------------ C29: pin-type marker ------------------------- *)
\* what the last command added to the document
Added == SubSeq(document', Len(document) + 1, Len(document'))

\* a Pin drawn in a row that PinSet set up
PinDrawn ==
  /\ cmd'.kind = "Pin"
  /\ phase = "Draw"
  /\ line_settings # EmptyMap
  /\ outcome' = "running"

\* the triangle points rightwards: its apex, the third point, is right of
\* its base, the first two
Rightwards(polygon) == polygon.points[3][1] > polygon.points[1][1]

\* C29: a Pin of type Input or Output in a LEFT or RIGHT row adds one
\* triangle that points toward the anchor: rightwards in a LEFT row, where
\* the marker is left of the anchor, and leftwards in a RIGHT row.
C29_MarkerTowardBody ==
  [][(PinDrawn /\ cmd'.pin_type \in {Some("Input"), Some("Output")}) =>
       LET triangles == OfKind(Added, "polygon")
       IN  /\ Len(triangles) = 1
           /\ Rightwards(triangles[1]) <=> line_settings["SIDE"] = "LEFT"
           /\ Rightwards(triangles[1]) <=> triangles[1].tx < anchor_x]_vars

(* -------------------------- C30: leader line --------------------------- *)
\* C30: a Pin drawn in a row with a leader length above zero adds exactly
\* one leader: a line for no wire kind, Power or Digital, a square wave for
\* Pwm, a sampled sine for Analog and HsAnalog; its path starts at (0, 0)
\* and ends at (leader length, 0).
C30_OneLeader ==
  [][(PinDrawn /\ LineNum("LEADER", 20) > 0) =>
       LET leaders == OfKind(Added, "polyline")
           wire == cmd'.wire
           path == leaders[1].path
       IN  /\ Len(leaders) = 1
           /\ path.shape = CASE wire = Some("Pwm") -> "square"
                              [] wire \in {Some("Analog"), Some("HsAnalog")}
                                   -> "sine"
                              [] OTHER -> "line"
           /\ path.points[1] = <<0, 0>>
           /\ path.points[Len(path.points)] = <<LineNum("LEADER", 20), 0>>]_vars

(* ------------------------ C31: lines of a box -------------------------- *)
\* a Box command that draw_box has drawn
BoxDrawn ==
  /\ cmd'.kind = "Box"
  /\ phase = "Draw"
  /\ outcome' = "running"

\* the group the last command added to the document
Group == document'[Len(document')]

\* the text of the Box command, empty when it has none
Content == IF cmd'.box.text = None THEN "" ELSE cmd'.box.text[1]

\* C31: a box whose content splits on the marker into two segments has two
\* text lines, the first above the second; content without the marker has
\* one line and empty content none.
C31_TwoLines ==
  [][BoxDrawn =>
       /\ Len(document') = Len(document) + 1
       /\ Content = "" => Len(Group.texts) = 0
       /\ (Content # "" /\ Len(split(Content)) = 1) => Len(Group.texts) = 1
       /\ Len(split(Content)) = 2 =>
            /\ Len(Group.texts) = 2
            /\ Group.texts[1].content = split(Content)[1]
            /\ Group.texts[2].content = split(Content)[2]
            /\ Group.texts[1].y < Group.texts[2].y]_vars

(* ------------------------- C32: size of a box -------------------------- *)
\* WIDTH or HEIGHT of the box theme of the Box command
ThemeSize(entry) == ParseOr(get_box_theme(cmd'.box.theme, entry, "0"), 0)

\* C32: the rectangle of a Box has the width and height of the command
\* when the command gives them, and those of the box theme otherwise.
C32_OwnSize ==
  [][BoxDrawn =>
       /\ Group.rect.width = IF cmd'.box.box_width # None
                             THEN cmd'.box.box_width[1] ELSE ThemeSize("WIDTH")
       /\ Group.rect.height = IF cmd'.box.box_height # None
                              THEN cmd'.box.box_height[1]
                              ELSE ThemeSize("HEIGHT")]_vars

(* -------------------- C33: a failure changes nothing ------------------- *)
\* C33: the command on which the pass fails with a RenderError leaves the
\* phase, the theme store, the labels, dpi, page size and resolution, the
\* anchor, the running offsets, the row configuration, the message settings,
\* the open session and the document as they were.
C33_FailureKeepsState ==
  [][(~Erred /\ Erred') =>
       UNCHANGED <<phase, themes, pin_func_types, page, cursor, message,
                   document>>]_vars

\* a Pin of an undefined group failed in a row that was set up, with a box
\* already in the document
C33_Witness ==
  /\ outcome = "SvgError: PinGroup is not defined"
  /\ cmd.kind = "Pin"
  /\ line_settings # EmptyMap
  /\ document # << >>

(* ----------------------------- C34: no abort --------------------------- *)
\* C34: a pass ends with Ok or with a RenderError; no command sequence
\* makes process_commands panic.
C34_NoPanic == outcome # "panic"

(* ----------------------- C35: Text needs a session --------------------- *)
NoSession == "SvgError: No multiline text message started"

\* C35: a session is opened by a Message only and is closed by an
\* EndMessage that runs; a Text met in the draw phase with no open session,
\* so before any Message or after an EndMessage with no Message since, fails
\* and leaves document and message settings as they were, and a Text that
\* succeeds had an open session; an EndMessage met with no open session
\* succeeds and changes nothing.
C35_TextNeedsSession ==
  [][/\ (current_text = None /\ current_text' # None) => cmd'.kind = "Message"
     /\ (cmd'.kind = "EndMessage" /\ outcome' = "running") =>
          current_text' = None
     /\ (cmd'.kind = "Text" /\ cmd.kind \in {"None", "Draw", "EndMessage"}) =>
          Erred'
     /\ (cmd'.kind = "Text" /\ phase = "Draw" /\ current_text = None) =>
          /\ outcome' = NoSession
          /\ UNCHANGED <<document, message>>
     /\ (cmd'.kind = "Text" /\ outcome' = "running") => current_text # None
     /\ (cmd'.kind = "EndMessage" /\ phase = "Draw" /\ current_text = None) =>
          /\ outcome' = "running"
          /\ UNCHANGED <<phase, themes, pin_func_types, page, cursor, message,
                         document>>]_vars

\* a Text failed for want of a session after a session had been closed
C35_Witness ==
  /\ outcome = NoSession
  /\ cmd.kind = "Text"
  /\ OfKind(document, "text") # << >>

(* -------------------- C36: no newline across sessions ------------------ *)
\* C36: a Message that runs clears the pending newline, and the first Text
\* of a session is added without a position of its own and without an
\* advance of the vertical offset, whatever the last Text of the session
\* before asked for.
C36_NoLeak ==
  [][/\ (cmd'.kind = "Message" /\ phase = "Draw" /\ outcome' = "running") =>
          message_settings'["Newline"] = "false"
     /\ (/\ cmd'.kind = "Text"
         /\ outcome' = "running"
         /\ current_text # None
         /\ current_text[1].spans = << >>) =>
          /\ current_text'[1].spans[1].pos = << >>
          /\ message_settings'["OffsetY"] = message_settings["OffsetY"]]_vars

\* the first Text of a session has been added on the session's first line,
\* after a session whose last Text asked for a new line
C36_Witness ==
  /\ cmd.kind = "Text"
  /\ outcome = "running"
  /\ current_text # None
  /\ Len(current_text[1].spans) = 1
  /\ current_text[1].spans[1].pos = << >>
  /\ document # << >>
  /\ LET e == document[Len(document)]
     IN  /\ e.kind = "text"
         /\ e.spans # << >>
         /\ e.spans[Len(e.spans)].content = "a"

(* ---------------------- C37: append-only document ---------------------- *)
\* the document of the next state starts with the document
Kept ==
  /\ Len(document') >= Len(document)
  /\ SubSeq(document', 1, Len(document)) = document

\* the kinds of primitive a Pin adds, in the order of the claim
PinParts ==
  LET p == cmd'
  IN  (IF p.group = None THEN << >> ELSE <<"group">>) \o
      (IF p.pin_type = None THEN << >>
       ELSE IF p.pin_type[1] = "IO" THEN <<"circle">> ELSE <<"polygon">>) \o
      (IF p.wire # None /\ LineNum("LEADER", 20) > 0
       THEN <<"polyline">> ELSE << >>)

\* the non-empty attributes of the Pin that have a label, in column order
Columns ==
  LET a == cmd'.attributes
      k == IF Len(a) < Len(pin_func_types) THEN Len(a) ELSE Len(pin_func_types)
  IN  SelectSeq(SubSeq(a, 1, k), LAMBDA s : s # "")

\* the kind of an added primitive; the group circle is the circle that
\* carries a stroke width
PartOf(e) == IF e.kind = "circle" /\ "stroke_width" \in DOMAIN e THEN "group"
             ELSE e.kind

\* C37: every step keeps the primitives of the document in place and in
\* order, the document holds no primitive as long as the phase is Setup
\* (the end of input adds the definitions, which draw nothing), and a Pin
\* that is drawn adds, after them, its group circle, its marker, its leader
\* and its text boxes in column order.
C37_AppendOnly ==
  /\ [](phase = "Setup" => \A i \in DOMAIN document : document[i].kind = "defs")
  /\ [][/\ Kept
        /\ PinDrawn =>
             /\ Len(Added) = Len(PinParts) + Len(Columns)
             /\ \A i \in 1..Len(PinParts) : PartOf(Added[i]) = PinParts[i]
             /\ \A i \in 1..Len(Columns) :
                  LET box == Added[Len(PinParts) + i]
                  IN  /\ box.kind = "g"
                      /\ box.texts[1].content = Columns[i]]_vars

\* a Pin with a group, a marker and two columns was drawn after another Pin
C37_Witness ==
  /\ cmd.kind = "Pin"
  /\ outcome = "running"
  /\ cmd.group # None
  /\ cmd.pin_type # None
  /\ Len(OfKind(document, "g")) >= 3
  /\ document[Len(document)].kind = "g"
  /\ document[1].kind # "g"

(* ------------------- C38: one size for place and draw ------------------ *)
\* WIDTH or HEIGHT that get_pin_box_xy and inc_offset_x read for a theme
PlacedSize(theme, entry) == ParseOr(get_box_theme(theme, entry, "0"), 0)

\* C38: every box a Pin draws has a rectangle of the width that a LEFT row
\* subtracts before it and that the box offset advances by after it, and of
\* the height that justifies it inside the row.
C38_SameSize ==
  [][(cmd'.kind = "Pin" /\ outcome' = "running") =>
       LET cols == DrawnCols(cmd', pin_func_types)
           boxes == NewBoxes(document, document')
       IN  \A j \in cols :
             LET box == boxes[Cardinality({i \in cols : i <= j})]
                 label == pin_func_types[j]
             IN  /\ line_settings["SIDE"] = "LEFT" =>
                      PlacedSize(label, "WIDTH") = box.rect.width
                 /\ PlacedSize(label, "HEIGHT") = box.rect.height
                 /\ PlacedSize("PIN BOX", "WIDTH") = box.rect.width]_vars

(* --------------------- C39: columns do not coincide -------------------- *)
\* C39: in a row of any side, with gap + box width above zero, the boxes of
\* one Pin stand each further from the pin than the one before it
\* (leftwards in a LEFT row, rightwards in the others), so no two of them
\* are at the same horizontal position.
C39_DistinctColumns ==
  [][(/\ cmd'.kind = "Pin"
      /\ outcome' = "running"
      /\ RowNum("GAP") + PlacedSize("PIN BOX", "WIDTH") > 0) =>
       LET boxes == NewBoxes(document, document')
           away == IF line_settings["SIDE"] = "LEFT" THEN 0 - 1 ELSE 1
       IN  \A i \in 1..(Len(boxes) - 1) :
             away * (LeftEdge(boxes[i + 1]) - LeftEdge(boxes[i])) > 0]_vars

(* ------------------ C40: parsed lists pass the renderer ---------------- *)
\* C40: a line that parse_csv_file turns into a Command, after lines that
\* parser and renderer both let through, is let through by the phase
\* controller of the renderer: no parsed list fails with InvalidPhase.
C40_ParsedListAccepted ==
  (cmd.kind = "Line" /\ cmd.parsed # None) => outcome # "InvalidPhase"

====
